---- MODULE Spec2Model ----
(***************************************************************************)
(* A model of dir-cache: a directory-backed generational key/value cache.  *)
(* The file system below the cache root, the in-memory map of entries, the *)
(* clock and the result of the last call are the state; every public       *)
(* operation of DirCache is one action.                                    *)
(***************************************************************************)
EXTENDS Integers, Sequences, FiniteSets, TLC

(* ---------------------------------------------------------------- bounds *)
\* largest max_generations any call uses
MaxGens == 3
\* the max_generations of the caches that are closed and opened again
ReopenGens == 2
\* user values are the byte strings 1..MaxVal
MaxVal == 2
\* the clock runs from 0 to MaxTime
MaxTime == 2
\* ExpiresAfter(d) is used with d in 1..MaxDur
MaxDur == 1
\* a root is opened at most MaxSessions times after the first
MaxSessions == 3
\* the longest key, in bytes, handed to safe_join
MaxPathLen == 5
\* the longest path, in components, handed to relativize
MaxDepth == 3

(* ------------------------------------------------------ program constants *)
MANIFEST_VERSION == 1
\* Duration::MAX, the duration NoExpiry stands for (scaled to the model's clock)
DurationMAX == 1000000
\* nanoseconds per second, as time.rs splits a manifest timestamp
NanosPerSec == 1000000000

(* ----------------------------------------------------------------- values *)
None == <<>>
Some(x) == <<x>>
IsSome(o) == o /= <<>>
Unwrap(o) == o[1]

Min(a, b) == IF a < b THEN a ELSE b

\* A key is a sequence of path components; "k/sub" lies below "k".
Keys == { <<"k">>, <<"k", "sub">> }
NoKey == <<>>

\* the bytes a user stores, and what Lz4 makes of them: lz4 counts the layers
Plain(v) == [data |-> v, lz4 |-> 0]
Values == { Plain(v) : v \in 1..MaxVal }
RogueContent == [data |-> 0, lz4 |-> 0]

MemPushOpts == {"RetainAndWrite", "MemoryOnly", "PassthroughWrite"}
MemPullOpts == {"KeepInMemoryOnRead", "DontKeepInMemoryOnRead"}
SyncOpts == {"SyncOnDrop", "ManualSync"}
Encodings == {"Plain", "Lz4"}
NoExpiry == [kind |-> "NoExpiry", dur |-> 0]
ExpiresAfter(d) == [kind |-> "ExpiresAfter", dur |-> d]
ExpirationOpts == {NoExpiry} \cup { ExpiresAfter(d) : d \in 1..MaxDur }
GenRange == 1..MaxGens
GenIdx == 0..MaxGens

(* --------------------------------------------------------------- opts.rs *)
as_dur(expiration) ==
  IF expiration.kind = "NoExpiry" THEN DurationMAX ELSE expiration.dur

saturating_add(a, b) == IF a + b > DurationMAX THEN DurationMAX ELSE a + b

serialize(encoding) == IF encoding = "Plain" THEN "0" ELSE "1"

\* Some(encoding), or None for a tag that is no encoding (ParseMetadata)
deserialize(s) ==
  IF s = "0" THEN Some("Plain") ELSE IF s = "1" THEN Some("Lz4") ELSE None

encode(encoding, content) ==
  IF encoding = "Plain" THEN content ELSE [content EXCEPT !.lz4 = @ + 1]

(* --------------------------------------------------------------- time.rs *)
duration_from_nanos(nanos) ==
  (nanos \div NanosPerSec) * NanosPerSec + (nanos % NanosPerSec)

(* ---------------------------------------------------------- path_util.rs *)
\* the path of the cache root
Base == <<"root">>

\* a join that lets the other path replace the base
join_replacing(base, other) == other

\* safe_join of an already validated relative path: the platform join
join(base, other) == base \o other

\* The components a key may not have: the root of an absolute path, the
\* parent and the current directory, and the empty component that a leading,
\* trailing or doubled separator leaves.
NotNormal == {"/", "..", ".", ""}

\* keys that safe_join rejects
UnsafeKeys == { <<"/", "absolute">>, <<"k", "..">> }

\* Some(the joined path), or None for DangerousKey
safe_join(base, other) ==
  IF other = <<>> \/ \E i \in 1..Len(other) : other[i] \in NotNormal
  THEN None
  ELSE Some(join(base, other))

\* a relativize that accepts ext = base and returns the empty path
RECURSIVE relativize_same(_, _, _)
relativize_same(base, ext, i) ==
  IF i <= Len(base) /\ i <= Len(ext)
  THEN IF base[i] /= ext[i] THEN None ELSE relativize_same(base, ext, i + 1)
  ELSE IF i <= Len(base) THEN None
  ELSE Some(SubSeq(ext, i, Len(ext)))

RECURSIVE relativizeFrom(_, _, _)
relativizeFrom(base, ext, i) ==
  IF i <= Len(base) /\ i <= Len(ext)
  THEN IF base[i] /= ext[i] THEN None ELSE relativizeFrom(base, ext, i + 1)
  ELSE IF i <= Len(base) THEN None
  ELSE IF i <= Len(ext) THEN Some(SubSeq(ext, i, Len(ext)))
  ELSE None

\* Some(the tail of ext past base), or None (PathRelativize)
relativize(base, ext) == relativizeFrom(base, ext, 1)

(* ------------------------------------------- path_util.rs on raw paths *)
\* The bytes of a key: a letter, the dot, the separator and the NUL byte.
PathBytes == {"a", ".", "/", "NUL"}

\* every key of at most MaxPathLen bytes
PathStrings == UNION { [1..n -> PathBytes] : n \in 0..MaxPathLen }

\* the pieces of a path between its separators, empty ones included
RECURSIVE split(_, _, _, _)
split(s, i, cur, acc) ==
  IF i > Len(s) THEN Append(acc, cur)
  ELSE IF s[i] = "/" THEN split(s, i + 1, <<>>, Append(acc, cur))
  ELSE split(s, i + 1, Append(cur, s[i]), acc)

\* Path::is_absolute on unix
is_absolute(s) == Len(s) > 0 /\ s[1] = "/"

\* one std::path::Component
Component(kind, os) == [kind |-> kind, os |-> os]

\* the Components iterator over the pieces from index j: separators that
\* repeat or trail and `.` pieces are skipped, but a leading `.` of a
\* path without root is CurDir
RECURSIVE components_from(_, _, _)
components_from(pieces, j, has_root) ==
  IF j > Len(pieces) THEN <<>>
  ELSE LET piece == pieces[j]
           rest == components_from(pieces, j + 1, has_root)
       IN IF piece = <<>> THEN rest
          ELSE IF piece = <<".">>
          THEN (IF j = 1 /\ ~has_root THEN <<Component("CurDir", piece)>> \o rest
                ELSE rest)
          ELSE IF piece = <<".", ".">> THEN <<Component("ParentDir", piece)>> \o rest
          ELSE <<Component("Normal", piece)>> \o rest

\* Path::components on unix
components(s) ==
  (IF is_absolute(s) THEN <<Component("RootDir", <<"/">>)>> ELSE <<>>)
    \o components_from(split(s, 1, <<>>, <<>>), 1, is_absolute(s))

\* the loop of safe_join over the components: [ok, cumulative_len, num_components]
RECURSIVE count_components(_, _, _)
count_components(cs, i, acc) ==
  IF i > Len(cs) THEN acc
  ELSE IF cs[i].kind /= "Normal" THEN [acc EXCEPT !.ok = FALSE]
  ELSE count_components(cs, i + 1,
         [acc EXCEPT !.cumulative_len = @ + Len(cs[i].os),
                     !.num_components = @ + 1])

\* a safe_join that trusts the components and skips the length comparison
safe_join_path_unchecked(base, other) ==
  LET cs == components(other)
      c == count_components(cs, 1, [ok |-> TRUE, cumulative_len |-> 0,
                                    num_components |-> 0])
  IN IF is_absolute(other) THEN None
     ELSE IF \E i \in 1..Len(other) : other[i] = "NUL" THEN None
     ELSE IF ~c.ok THEN None
     ELSE IF c.cumulative_len = 0 THEN None
     ELSE Some(join(base, [i \in 1..Len(cs) |-> cs[i].os]))

\* SafePathJoin::safe_join on the bytes of the key: Some(the joined path as
\* its components), or None for DangerousKey
safe_join_path(base, other) ==
  LET cs == components(other)
      c == count_components(cs, 1, [ok |-> TRUE, cumulative_len |-> 0,
                                    num_components |-> 0])
  IN IF is_absolute(other) THEN None
     ELSE IF \E i \in 1..Len(other) : other[i] = "NUL" THEN None
     ELSE IF ~c.ok THEN None
     ELSE IF c.cumulative_len = 0
             \/ c.cumulative_len + c.num_components - 1 /= Len(other)
     THEN None
     ELSE Some(join(base, [i \in 1..Len(cs) |-> cs[i].os]))

\* the components of the paths handed to relativize
PathNames == {"a", "b"}

\* every path of at most MaxDepth components
PathSeqs == UNION { [1..n -> PathNames] : n \in 0..MaxDepth }

(* ------------------------------------------------------------- the disk *)
\* One directory below the root: whether it exists, its manifest file, its
\* dir-cache-generation-<i> files and one file that is not the cache's.
NoDir ==
  [exists |-> FALSE, manifest |-> None, gens |-> [i \in GenIdx |-> None],
   rogue |-> None]

Prefixes(p) == { SubSeq(p, 1, i) : i \in 1..Len(p) }

SubDirs(disk, p) ==
  { q \in Keys : Len(q) = Len(p) + 1 /\ SubSeq(q, 1, Len(p)) = p /\ disk[q].exists }

\* std::fs::create_dir_all
ensure_dir(disk, p) ==
  [q \in Keys |-> IF q \in Prefixes(p) THEN [disk[q] EXCEPT !.exists = TRUE]
                  ELSE disk[q]]

\* remove_file, an absent file being no error
ensure_removed_file(dir, i) ==
  IF i \in GenIdx THEN [dir EXCEPT !.gens[i] = None] ELSE dir

\* a removal that takes the directory with everything below it
\* a try_remove_dir that removes the generation files and leaves the manifest
try_remove_dir_keep_manifest(disk, p) ==
  IF ~disk[p].exists THEN [ok |-> FALSE, disk |-> disk]
  ELSE [ok |-> TRUE,
        disk |-> [disk EXCEPT ![p] = [NoDir EXCEPT !.exists = TRUE,
                                                   !.manifest = disk[p].manifest]]]

try_remove_dir_all(disk, p) ==
  IF ~disk[p].exists THEN [ok |-> FALSE, disk |-> disk]
  ELSE [ok |-> TRUE,
        disk |-> [q \in Keys |-> IF p \in Prefixes(q) THEN NoDir ELSE disk[q]]]

\* [ok, disk]: every regular file of the directory is removed, and the
\* directory itself unless it holds a directory; a missing directory is an error
try_remove_dir(disk, p) ==
  IF ~disk[p].exists THEN [ok |-> FALSE, disk |-> disk]
  ELSE IF SubDirs(disk, p) /= {}
       THEN [ok |-> TRUE, disk |-> [disk EXCEPT ![p] = [NoDir EXCEPT !.exists = TRUE]]]
       ELSE [ok |-> TRUE, disk |-> [disk EXCEPT ![p] = NoDir]]

GenFiles(dir) == { i \in GenIdx : IsSome(dir.gens[i]) }

(* ------------------------------------------------- lib.rs: DirCacheEntry *)
InMemEntry(committed, content) == [committed |-> committed, content |-> content]
ContentGeneration(encoding, age) == [encoding |-> encoding, age |-> age]

\* DirCacheEntry::new
NewEntry == [in_mem |-> None, on_disk |-> <<>>, last_updated |-> 0]

\* [ok, dir]: the manifest is the version and one line per record of on_disk,
\* in the order of on_disk; the write fails in a missing directory
dump_metadata(on_disk, dir) ==
  IF ~dir.exists THEN [ok |-> FALSE, dir |-> dir]
  ELSE [ok |-> TRUE,
        dir |-> [dir EXCEPT !.manifest =
                   Some([version |-> MANIFEST_VERSION,
                         lines |-> [i \in 1..Len(on_disk) |->
                                      [age_ns |-> on_disk[i].age,
                                       tag |-> serialize(on_disk[i].encoding)]]])]]

\* the parsed lines, each pushed to the front of the queue
RECURSIVE read_lines(_, _, _)
read_lines(lines, i, generations) ==
  IF i > Len(lines) THEN [ok |-> TRUE, generations |-> generations]
  ELSE LET age == duration_from_nanos(lines[i].age_ns)
           enc == deserialize(lines[i].tag)
       IN IF ~IsSome(enc) THEN [ok |-> FALSE, generations |-> generations]
          ELSE read_lines(lines, i + 1,
                          <<[age |-> age, encoding |-> Unwrap(enc)]>> \o generations)

\* [ok, present, version, generations]
read_metadata(dir) ==
  IF ~IsSome(dir.manifest)
  THEN [ok |-> TRUE, present |-> FALSE, version |-> 0, generations |-> <<>>]
  ELSE LET r == read_lines(Unwrap(dir.manifest).lines, 1, <<>>)
       IN [ok |-> r.ok, present |-> TRUE, version |-> Unwrap(dir.manifest).version,
           generations |-> r.generations]

\* the truncation loop of generational_write: [on_disk, dir]
RECURSIVE truncate(_, _, _)
truncate(on_disk, dir, max_rem) ==
  IF Len(on_disk) > max_rem
  THEN truncate(SubSeq(on_disk, 1, Len(on_disk) - 1),
                ensure_removed_file(dir, Len(on_disk)), max_rem)
  ELSE [on_disk |-> on_disk, dir |-> dir]

\* a promotion that renames only the newest generation
promote_newest_only(dir, ind, old_gen_encoding) ==
  IF ind < 0 THEN [ok |-> TRUE, dir |-> dir]
  ELSE IF ~IsSome(dir.gens[0]) THEN [ok |-> FALSE, dir |-> dir]
  ELSE [ok |-> TRUE, dir |-> [dir EXCEPT !.gens[1] = dir.gens[0], !.gens[0] = None]]

\* a promotion that encodes at every index, not only at index 0
RECURSIVE promote_encode_all(_, _, _)
promote_encode_all(dir, ind, old_gen_encoding) ==
  IF ind < 0 THEN [ok |-> TRUE, dir |-> dir]
  ELSE IF ~IsSome(dir.gens[ind]) THEN [ok |-> FALSE, dir |-> dir]
  ELSE promote_encode_all(
         [dir EXCEPT !.gens[ind + 1] =
                       Some(encode(old_gen_encoding, Unwrap(dir.gens[ind]))),
                     !.gens[ind] = None],
         ind - 1, old_gen_encoding)

\* the promotion loop of generational_write from index ind down to 0: [ok, dir]
RECURSIVE promote(_, _, _)
promote(dir, ind, old_gen_encoding) ==
  IF ind < 0 THEN [ok |-> TRUE, dir |-> dir]
  ELSE IF ~IsSome(dir.gens[ind]) THEN [ok |-> FALSE, dir |-> dir]
  ELSE IF ind = 0 /\ old_gen_encoding /= "Plain"
       THEN promote([dir EXCEPT !.gens[1] =
                       Some(encode(old_gen_encoding, Unwrap(dir.gens[0])))],
                    ind - 1, old_gen_encoding)
       ELSE promote([dir EXCEPT !.gens[ind + 1] = dir.gens[ind], !.gens[ind] = None],
                    ind - 1, old_gen_encoding)

\* a generational_write that keeps max_rem old generations beside the new one
generational_write_keep_all(entry, dir, data, old_gen_encoding, max_rem, now) ==
  LET t == truncate(entry.on_disk, dir, max_rem)
      n == Min(Len(t.on_disk), max_rem)
      p == promote(t.dir, n - 1, old_gen_encoding)
      gen_queue == SubSeq(t.on_disk, 1, n)
      next_gen == ContentGeneration("Plain", now)
      written == [entry EXCEPT !.on_disk = <<next_gen>> \o gen_queue,
                               !.last_updated = now]
      g0 == [p.dir EXCEPT !.gens[0] = Some(data)]
      m == dump_metadata(written.on_disk, g0)
  IN IF ~p.ok
     THEN [ok |-> FALSE, entry |-> [entry EXCEPT !.on_disk = <<>>], dir |-> p.dir]
     ELSE IF ~p.dir.exists
     THEN [ok |-> FALSE, entry |-> written, dir |-> p.dir]
     ELSE [ok |-> m.ok, entry |-> written, dir |-> m.dir]

\* a generational write that rewrites the manifest before it promotes
generational_write_manifest_first(entry, dir, data, old_gen_encoding, max_rem, now) ==
  LET t == truncate(entry.on_disk, dir, max_rem)
      n == Min(Len(t.on_disk), max_rem - 1)
      gen_queue == SubSeq(t.on_disk, 1, n)
      next_gen == ContentGeneration("Plain", now)
      written == [entry EXCEPT !.on_disk = <<next_gen>> \o gen_queue,
                               !.last_updated = now]
      m == dump_metadata(written.on_disk, t.dir)
      p == promote(m.dir, n - 1, old_gen_encoding)
      g0 == [p.dir EXCEPT !.gens[0] = Some(data)]
  IN IF ~p.ok
     THEN [ok |-> FALSE, entry |-> [entry EXCEPT !.on_disk = <<>>], dir |-> p.dir]
     ELSE IF ~p.dir.exists
     THEN [ok |-> FALSE, entry |-> written, dir |-> p.dir]
     ELSE [ok |-> m.ok, entry |-> written, dir |-> g0]

\* a generational write that leaves last_updated as it was
generational_write_stale(entry, dir, data, old_gen_encoding, max_rem, now) ==
  LET t == truncate(entry.on_disk, dir, max_rem)
      n == Min(Len(t.on_disk), max_rem - 1)
      p == promote(t.dir, n - 1, old_gen_encoding)
      gen_queue == SubSeq(t.on_disk, 1, n)
      next_gen == ContentGeneration("Plain", now)
      written == [entry EXCEPT !.on_disk = <<next_gen>> \o gen_queue]
      g0 == [p.dir EXCEPT !.gens[0] = Some(data)]
      m == dump_metadata(written.on_disk, g0)
  IN IF ~p.ok
     THEN [ok |-> FALSE, entry |-> [entry EXCEPT !.on_disk = <<>>], dir |-> p.dir]
     ELSE IF ~p.dir.exists
     THEN [ok |-> FALSE, entry |-> written, dir |-> p.dir]
     ELSE [ok |-> m.ok, entry |-> written, dir |-> m.dir]

\* [ok, entry, dir]
generational_write(entry, dir, data, old_gen_encoding, max_rem, now) ==
  LET t == truncate(entry.on_disk, dir, max_rem)
      n == Min(Len(t.on_disk), max_rem - 1)
      p == promote(t.dir, n - 1, old_gen_encoding)
      gen_queue == SubSeq(t.on_disk, 1, n)
      next_gen == ContentGeneration("Plain", now)
      written == [entry EXCEPT !.on_disk = <<next_gen>> \o gen_queue,
                               !.last_updated = now]
      g0 == [p.dir EXCEPT !.gens[0] = Some(data)]
      m == dump_metadata(written.on_disk, g0)
  IN IF ~p.ok
     THEN \* the drained queue is dropped with the error
          [ok |-> FALSE, entry |-> [entry EXCEPT !.on_disk = <<>>], dir |-> p.dir]
     ELSE IF ~p.dir.exists
     THEN [ok |-> FALSE, entry |-> written, dir |-> p.dir]
     ELSE [ok |-> m.ok, entry |-> written, dir |-> m.dir]

\* the loop of read_from_dir over the manifest's records from index ind:
\* [ok, dir, in_mem, on_disk, last_updated]
RECURSIVE read_entries(_, _, _, _, _, _)
read_entries(entries, ind, acc, eager_load, expiration, now) ==
  IF ind >= Len(entries) \/ ~acc.ok THEN acc
  ELSE LET e == entries[ind + 1]
       IN IF saturating_add(e.age, as_dur(expiration)) <= now
          THEN read_entries(entries, ind + 1,
                            [acc EXCEPT !.dir = ensure_removed_file(acc.dir, ind)],
                            eager_load, expiration, now)
          ELSE IF ind = 0 /\ eager_load /\ ~IsSome(acc.dir.gens[0])
          THEN [acc EXCEPT !.ok = FALSE]
          ELSE read_entries(entries, ind + 1,
                 [acc EXCEPT
                    !.last_updated = IF ind = 0 THEN Some(e.age) ELSE @,
                    !.in_mem = IF ind = 0 /\ eager_load
                               THEN Some(InMemEntry(TRUE, Unwrap(acc.dir.gens[0])))
                               ELSE @,
                    !.on_disk = Append(@, ContentGeneration(e.encoding, e.age))],
                 eager_load, expiration, now)

\* [ok, entry, dir]: entry is None when the directory registers no key
read_from_dir(dir, eager_load, expiration, now) ==
  LET md == read_metadata(dir)
      r == read_entries(md.generations, 0,
                        [ok |-> TRUE, dir |-> dir, in_mem |-> None, on_disk |-> <<>>,
                         last_updated |-> None],
                        eager_load, expiration, now)
  IN IF ~md.ok THEN [ok |-> FALSE, entry |-> None, dir |-> dir]
     ELSE IF ~md.present THEN [ok |-> TRUE, entry |-> None, dir |-> dir]
     ELSE IF md.version /= MANIFEST_VERSION
     THEN [ok |-> FALSE, entry |-> None, dir |-> dir]
     ELSE IF ~r.ok THEN [ok |-> FALSE, entry |-> None, dir |-> r.dir]
     ELSE IF IsSome(r.last_updated)
     THEN [ok |-> TRUE,
           entry |-> Some([in_mem |-> r.in_mem, on_disk |-> r.on_disk,
                           last_updated |-> Unwrap(r.last_updated)]),
           dir |-> r.dir]
     ELSE [ok |-> TRUE, entry |-> None, dir |-> r.dir]

(* ------------------------------------------------- lib.rs: DirCacheInner *)
\* The map holds, for every key, None or Some(entry).
EmptyStore == [k \in Keys |-> None]
contains_key(st, key) == key \in DOMAIN st /\ IsSome(st[key])

GenerationOpt(max_generations, old_gen_encoding, expiration) ==
  [max_generations |-> max_generations, old_gen_encoding |-> old_gen_encoding,
   expiration |-> expiration]

\* what a call hands back: status is "ok", "err" or "panic"; res is the
\* Option of bytes of get and get_or_insert, flag the bool of remove
Outcome(status, res, flag, st, dk) ==
  [status |-> status, res |-> res, flag |-> flag, store |-> st, disk |-> dk]

\* the clean-up of get_opt for a key it finds expired or empty
clean_key(st, dk, key) ==
  LET r == try_remove_dir(dk, key)
  IN IF ~r.ok THEN Outcome("err", None, FALSE, st, r.disk)
     ELSE Outcome("ok", None, FALSE, [st EXCEPT ![key] = None], r.disk)

get_opt(st, dk, key, mem_pull_opt, generation_opt, now) ==
  IF ~contains_key(st, key) THEN Outcome("ok", None, FALSE, st, dk)
  ELSE LET val == Unwrap(st[key])
           dur == as_dur(generation_opt.expiration)
       IN IF saturating_add(val.last_updated, dur) <= now
          THEN clean_key(st, dk, key)
          ELSE IF Len(val.on_disk) > 0
                  /\ saturating_add(val.on_disk[1].age, dur) <= now
          THEN clean_key(st, dk, key)
          ELSE IF Len(val.on_disk) = 0 /\ ~IsSome(val.in_mem)
          THEN clean_key(st, dk, key)
          ELSE IF IsSome(val.in_mem)
          THEN Outcome("ok", Some(Unwrap(val.in_mem).content), FALSE, st, dk)
          ELSE IF ~IsSome(dk[key].gens[0])
          THEN Outcome("err", None, FALSE, st, dk)
          ELSE IF mem_pull_opt = "DontKeepInMemoryOnRead"
          THEN Outcome("ok", dk[key].gens[0], FALSE, st, dk)
          ELSE Outcome("ok", dk[key].gens[0], FALSE,
                       [st EXCEPT ![key] =
                          Some([val EXCEPT !.in_mem =
                                  Some(InMemEntry(TRUE, Unwrap(dk[key].gens[0])))])],
                       dk)

\* generational_write in the directory of path, after ensure_dir: [ok, entry, disk]
write_in_dir(entry, dk, path, content, generation_opt, now) ==
  LET made == ensure_dir(dk, path)
      w == generational_write(entry, made[path], content,
                              generation_opt.old_gen_encoding,
                              generation_opt.max_generations, now)
  IN [ok |-> w.ok, entry |-> w.entry, disk |-> [made EXCEPT ![path] = w.dir]]

\* a write whose MemoryOnly branch first ages the unflushed value it replaces
run_write_aging(dc, dk, path, content, mem_push_opt, generation_opt, now) ==
  IF mem_push_opt = "RetainAndWrite"
  THEN LET w == write_in_dir(dc, dk, path, content, generation_opt, now)
       IN IF ~w.ok THEN w
          ELSE [w EXCEPT !.entry.in_mem = Some(InMemEntry(TRUE, content))]
  ELSE IF mem_push_opt = "MemoryOnly"
  THEN LET aged == IF IsSome(dc.in_mem) /\ ~Unwrap(dc.in_mem).committed
                   THEN write_in_dir(dc, dk, path, Unwrap(dc.in_mem).content,
                                     generation_opt, now)
                   ELSE [ok |-> TRUE, entry |-> dc, disk |-> dk]
       IN [ok |-> aged.ok,
           entry |-> [aged.entry EXCEPT !.in_mem = Some(InMemEntry(FALSE, content)),
                                        !.last_updated = now],
           disk |-> aged.disk]
  ELSE write_in_dir([dc EXCEPT !.in_mem = None], dk, path, content, generation_opt, now)

\* a write that treats MemoryOnly as RetainAndWrite
run_write_through(dc, dk, path, content, mem_push_opt, generation_opt, now) ==
  IF mem_push_opt = "PassthroughWrite"
  THEN write_in_dir([dc EXCEPT !.in_mem = None], dk, path, content, generation_opt, now)
  ELSE LET w == write_in_dir(dc, dk, path, content, generation_opt, now)
       IN IF ~w.ok THEN w
          ELSE [w EXCEPT !.entry.in_mem = Some(InMemEntry(TRUE, content))]

\* a write whose MemoryOnly branch marks the value committed
run_write_committed(dc, dk, path, content, mem_push_opt, generation_opt, now) ==
  IF mem_push_opt = "RetainAndWrite"
  THEN LET w == write_in_dir(dc, dk, path, content, generation_opt, now)
       IN IF ~w.ok THEN w
          ELSE [w EXCEPT !.entry.in_mem = Some(InMemEntry(TRUE, content))]
  ELSE IF mem_push_opt = "MemoryOnly"
  THEN [ok |-> TRUE,
        entry |-> [dc EXCEPT !.in_mem = Some(InMemEntry(TRUE, content)),
                             !.last_updated = now],
        disk |-> dk]
  ELSE write_in_dir([dc EXCEPT !.in_mem = None], dk, path, content, generation_opt, now)

\* [ok, entry, disk]
run_dir_cache_entry_write(dc, dk, path, content, mem_push_opt, generation_opt, now) ==
  IF mem_push_opt = "RetainAndWrite"
  THEN LET w == write_in_dir(dc, dk, path, content, generation_opt, now)
       IN IF ~w.ok THEN w
          ELSE [w EXCEPT !.entry.in_mem = Some(InMemEntry(TRUE, content))]
  ELSE IF mem_push_opt = "MemoryOnly"
  THEN [ok |-> TRUE,
        entry |-> [dc EXCEPT !.in_mem = Some(InMemEntry(FALSE, content)),
                             !.last_updated = now],
        disk |-> dk]
  ELSE write_in_dir([dc EXCEPT !.in_mem = None], dk, path, content, generation_opt, now)

\* an insert_new_data whose PassthroughWrite branch writes nothing
insert_new_data_lost(dc, dk, path, data, mem_push_opt, generation_opt, now) ==
  IF mem_push_opt = "RetainAndWrite"
  THEN LET w == write_in_dir(dc, dk, path, data, generation_opt, now)
       IN IF ~w.ok THEN w
          ELSE [w EXCEPT !.entry.in_mem = Some(InMemEntry(FALSE, data))]
  ELSE IF mem_push_opt = "MemoryOnly"
  THEN [ok |-> TRUE,
        entry |-> [dc EXCEPT !.in_mem = Some(InMemEntry(FALSE, data)),
                             !.last_updated = now],
        disk |-> dk]
  ELSE [ok |-> TRUE, entry |-> dc, disk |-> dk]

\* [ok, entry, disk]: the directory exists when this is called
insert_new_data(dc, dk, path, data, mem_push_opt, generation_opt, now) ==
  IF mem_push_opt = "RetainAndWrite"
  THEN LET w == write_in_dir(dc, dk, path, data, generation_opt, now)
       IN IF ~w.ok THEN w
          ELSE [w EXCEPT !.entry.in_mem = Some(InMemEntry(FALSE, data))]
  ELSE IF mem_push_opt = "MemoryOnly"
  THEN [ok |-> TRUE,
        entry |-> [dc EXCEPT !.in_mem = Some(InMemEntry(FALSE, data)),
                             !.last_updated = now],
        disk |-> dk]
  ELSE write_in_dir(dc, dk, path, data, generation_opt, now)

\* an insert_opt that writes a key it does not find through insert_new_data
insert_opt_new_data(st, dk, key, content, mem_push_opt, generation_opt, now) ==
  IF ~IsSome(safe_join(Base, key)) THEN Outcome("DangerousKey", None, FALSE, st, dk) ELSE
  LET existing == contains_key(st, key)
      dc == IF existing THEN Unwrap(st[key]) ELSE NewEntry
      w == IF existing
           THEN run_dir_cache_entry_write(dc, dk, key, content, mem_push_opt,
                                          generation_opt, now)
           ELSE insert_new_data(dc, ensure_dir(dk, key), key, content, mem_push_opt,
                                generation_opt, now)
  IN IF w.ok \/ existing
     THEN Outcome(IF w.ok THEN "ok" ELSE "err", None, FALSE,
                  [st EXCEPT ![key] = Some(w.entry)], w.disk)
     ELSE Outcome("err", None, FALSE, st, w.disk)

insert_opt(st, dk, key, content, mem_push_opt, generation_opt, now) ==
  IF ~IsSome(safe_join(Base, key)) THEN Outcome("DangerousKey", None, FALSE, st, dk) ELSE
  LET existing == contains_key(st, key)
      dc == IF existing THEN Unwrap(st[key]) ELSE NewEntry
      w == run_dir_cache_entry_write(dc, dk, key, content, mem_push_opt,
                                     generation_opt, now)
  IN IF w.ok \/ existing
     THEN Outcome(IF w.ok THEN "ok" ELSE "err", None, FALSE,
                  [st EXCEPT ![key] = Some(w.entry)], w.disk)
     ELSE Outcome("err", None, FALSE, st, w.disk)

\* the call of get_opt that ends get_or_insert_opt, unwrapped
get_unwrap(st, dk, key, mem_pull_opt, generation_opt, now) ==
  LET g == get_opt(st, dk, key, mem_pull_opt, generation_opt, now)
  IN IF g.status = "ok" /\ ~IsSome(g.res) THEN [g EXCEPT !.status = "panic"] ELSE g

\* a get_or_insert that makes the directory of a new key before it calls
\* the producer
get_or_insert_dir_first(st, dk, key, produced, mem_pull_opt, mem_push_opt, generation_opt, now) ==
  IF contains_key(st, key)
  THEN get_unwrap(st, dk, key, mem_pull_opt, generation_opt, now)
  ELSE IF ~IsSome(safe_join(Base, key)) THEN Outcome("DangerousKey", None, FALSE, st, dk)
  ELSE IF ~IsSome(produced)
  THEN Outcome("InsertWithErr", None, TRUE, st, ensure_dir(dk, key))
  ELSE LET made == ensure_dir(dk, key)
           w == insert_new_data(NewEntry, made, key, Unwrap(produced), mem_push_opt,
                                generation_opt, now)
       IN IF ~w.ok THEN Outcome("err", None, TRUE, st, w.disk)
          ELSE [get_unwrap([st EXCEPT ![key] = Some(w.entry)], w.disk, key,
                           mem_pull_opt, generation_opt, now) EXCEPT !.flag = TRUE]

\* produced is what insert_with returns: Some(bytes), or None for its error;
\* the flag of the outcome tells whether insert_with was called
get_or_insert_opt(st, dk, key, produced, mem_pull_opt, mem_push_opt, generation_opt, now) ==
  IF contains_key(st, key)
  THEN get_unwrap(st, dk, key, mem_pull_opt, generation_opt, now)
  ELSE IF ~IsSome(produced) THEN Outcome("InsertWithErr", None, TRUE, st, dk)
  ELSE IF ~IsSome(safe_join(Base, key)) THEN Outcome("DangerousKey", None, TRUE, st, dk)
  ELSE LET made == ensure_dir(dk, key)
           w == insert_new_data(NewEntry, made, key, Unwrap(produced), mem_push_opt,
                                generation_opt, now)
       IN IF ~w.ok THEN Outcome("err", None, TRUE, st, w.disk)
          ELSE [get_unwrap([st EXCEPT ![key] = Some(w.entry)], w.disk, key,
                           mem_pull_opt, generation_opt, now) EXCEPT !.flag = TRUE]

\* a remove that joins the key to the root before it looks the key up
remove_join_first(st, dk, key) ==
  IF ~IsSome(safe_join(Base, key)) THEN Outcome("DangerousKey", None, FALSE, st, dk)
  ELSE IF ~contains_key(st, key) THEN Outcome("ok", None, FALSE, st, dk)
  ELSE LET r == try_remove_dir(dk, key)
           removed == [st EXCEPT ![key] = None]
       IN IF ~r.ok THEN Outcome("err", None, FALSE, removed, r.disk)
          ELSE Outcome("ok", None, TRUE, removed, r.disk)

remove(st, dk, key) ==
  IF ~contains_key(st, key) THEN Outcome("ok", None, FALSE, st, dk)
  ELSE LET r == try_remove_dir(dk, key)
           removed == [st EXCEPT ![key] = None]
       IN IF ~r.ok THEN Outcome("err", None, FALSE, removed, r.disk)
          ELSE Outcome("ok", None, TRUE, removed, r.disk)

\* [ok, entry, dir]
dump_in_mem(entry, dir, keep_in_mem, keep_generations, old_gen_encoding, now) ==
  LET taken == [entry EXCEPT !.in_mem = None]
  IN IF IsSome(entry.in_mem) /\ ~Unwrap(entry.in_mem).committed
     THEN LET w == generational_write(taken, dir, Unwrap(entry.in_mem).content,
                                      old_gen_encoding, keep_generations, now)
          IN IF w.ok /\ keep_in_mem
             THEN [w EXCEPT !.entry.in_mem =
                      Some(InMemEntry(TRUE, Unwrap(entry.in_mem).content))]
             ELSE w
     ELSE LET m == dump_metadata(taken.on_disk, dir)
          IN [ok |-> m.ok, entry |-> taken, dir |-> m.dir]

\* the loop of sync_to_disk over the keys of the map in the order `order`
RECURSIVE sync_keys(_, _, _, _, _, _)
sync_keys(st, dk, order, mem_push_opt, generation_opt, now) ==
  IF order = <<>> THEN Outcome("ok", None, FALSE, st, dk)
  ELSE LET k == Head(order)
           made == ensure_dir(dk, k)
           d == dump_in_mem(Unwrap(st[k]), made[k], mem_push_opt = "RetainAndWrite",
                            generation_opt.max_generations,
                            generation_opt.old_gen_encoding, now)
           st2 == [st EXCEPT ![k] = Some(d.entry)]
           dk2 == [made EXCEPT ![k] = d.dir]
       IN IF ~d.ok THEN Outcome("err", None, FALSE, st2, dk2)
          ELSE sync_keys(st2, dk2, Tail(order), mem_push_opt, generation_opt, now)

\* the orders in which a HashMap may hand out the keys it holds
Orders(st) ==
  LET held == { k \in Keys : contains_key(st, k) }
  IN { o \in [1..Cardinality(held) -> held] :
         \A i, j \in DOMAIN o : i /= j => o[i] /= o[j] }

sync_to_disk(st, dk, order, mem_push_opt, generation_opt, now) ==
  sync_keys(st, dk, order, mem_push_opt, generation_opt, now)

\* the breadth-first scan of read_from_disk from the queue check_next
RECURSIVE scan(_, _, _, _, _, _)
scan(check_next, st, dk, eager_load, generation_opt, now) ==
  IF check_next = <<>> THEN [ok |-> TRUE, store |-> st, disk |-> dk]
  ELSE LET next == Head(check_next)
           r == read_from_dir(dk[next], eager_load, generation_opt.expiration, now)
           dk2 == [dk EXCEPT ![next] = r.dir]
           below == SubDirs(dk2, next)
           queued == IF below = {} THEN <<>> ELSE <<CHOOSE q \in below : TRUE>>
           relative == relativize(Base, join(Base, next))
       IN IF ~r.ok THEN [ok |-> FALSE, store |-> st, disk |-> dk2]
          ELSE IF IsSome(r.entry) /\ ~IsSome(relative)
          THEN [ok |-> FALSE, store |-> st, disk |-> dk2]
          ELSE scan(Tail(check_next) \o queued,
                    IF IsSome(r.entry) THEN [st EXCEPT ![Unwrap(relative)] = r.entry]
                    ELSE st,
                    dk2, eager_load, generation_opt, now)

\* [ok, store, disk]: the root holds no manifest, its directories are scanned
read_from_disk(dk, eager_load, generation_opt, now) ==
  LET top == SubDirs(dk, <<>>)
  IN scan(IF top = {} THEN <<>> ELSE <<CHOOSE q \in top : TRUE>>,
          EmptyStore, dk, eager_load, generation_opt, now)

\* the DirOpenOpt of an open
DirOpenOpts == {"OnlyIfExists", "CreateIfMissing"}

\* what exists at a path: FileObjectExists
FileObjectExists == {"No", "AsFile", "AsDir"}

\* an open whose OnlyIfExists creates a missing root as CreateIfMissing does
open_root_lenient(rt, dir_open) ==
  IF rt = "AsFile"
  THEN [status |-> IF dir_open = "OnlyIfExists" THEN "Open" ELSE "WriteContent",
        root |-> rt]
  ELSE [status |-> "ok", root |-> "AsDir"]

\* the first step of DirCacheOpts::open, on the root path: [status, root]
open_root(rt, dir_open) ==
  IF dir_open = "OnlyIfExists"
  THEN [status |-> IF rt = "AsDir" THEN "ok" ELSE "Open", root |-> rt]
  ELSE IF rt = "AsFile" THEN [status |-> "WriteContent", root |-> rt]
  ELSE [status |-> "ok", root |-> "AsDir"]

(* ------------------------------------------------------------- the state *)
VARIABLES
  disk,      \* the directories below the cache root
  store,     \* DirCacheInner.store
  opts,      \* DirCache.opts
  open,      \* whether a DirCache is open on the root
  now,       \* the clock, unix_time_now
  last,      \* the last call and what it returned
  hist,      \* per key, the values written through to disk since it came into the map
  lastw,     \* per key, the value last written to it, in any mode
  closed,    \* per key, the value it held at the last clean, flushed close
  clean,     \* no call has failed since the cache was opened
  sessions,  \* how often the root was reopened
  prevw,     \* per key, the unflushed in-memory value its last MemoryOnly write replaced
  root       \* what is at the path of the cache root: FileObjectExists

vars == <<disk, store, opts, open, now, last, hist, lastw, closed, clean, sessions,
          prevw, root>>

DirCacheOpts(mem_pull_opt, mem_push_opt, generation_opt, sync_opt) ==
  [mem_pull_opt |-> mem_pull_opt, mem_push_opt |-> mem_push_opt,
   generation_opt |-> generation_opt, sync_opt |-> sync_opt]

\* every DirCacheOpts over the given option sets
OptsOver(pulls, pushes, gens, encs, exps, syncs) ==
  { DirCacheOpts(pl, ps, GenerationOpt(g, e, x), sy) :
      pl \in pulls, ps \in pushes, g \in gens, e \in encs, x \in exps, sy \in syncs }

AllOpts == OptsOver(MemPullOpts, MemPushOpts, GenRange, Encodings, ExpirationOpts, SyncOpts)

\* a call, when it was made and what it returned
Call(op, key, status, res, flag, val, at) ==
  [op |-> op, key |-> key, status |-> status, res |-> res, flag |-> flag,
   val |-> val, at |-> at]

HistLen == MaxGens + 1

\* the last HistLen values written to a key
Remember(h, v) ==
  LET a == Append(h, v)
  IN IF Len(a) > HistLen THEN SubSeq(a, Len(a) - HistLen + 1, Len(a)) ELSE a

\* A write of a call: the key, the value and the mem_push_opt it was made with.
NoWrite == None
WriteOf(key, v, push) == Some([key |-> key, val |-> v, push |-> push])

\* hist after a call that left the map st: the values written through to disk
HistAfter(st, wrote) ==
  [k \in Keys |-> IF ~contains_key(st, k) THEN <<>>
                  ELSE IF /\ IsSome(wrote)
                          /\ Unwrap(wrote).key = k
                          /\ Unwrap(wrote).push /= "MemoryOnly"
                  THEN Remember(hist[k], Unwrap(wrote).val)
                  ELSE hist[k]]

\* lastw after a call that left the map st: the value last written, in any mode
LastwAfter(st, wrote) ==
  [k \in Keys |-> IF ~contains_key(st, k) THEN None
                  ELSE IF IsSome(wrote) /\ Unwrap(wrote).key = k
                  THEN Some(Unwrap(wrote).val)
                  ELSE lastw[k]]

\* prevw after a call that left the map st: the value that a MemoryOnly write
\* found in memory, not yet on disk, and replaced
PrevwAfter(st, wrote) ==
  [k \in Keys |-> IF ~contains_key(st, k) THEN None
                  ELSE IF IsSome(wrote) /\ Unwrap(wrote).key = k
                  THEN IF /\ Unwrap(wrote).push = "MemoryOnly"
                          /\ contains_key(store, k)
                          /\ IsSome(Unwrap(store[k]).in_mem)
                          /\ ~Unwrap(Unwrap(store[k]).in_mem).committed
                       THEN Some(Unwrap(Unwrap(store[k]).in_mem).content)
                       ELSE None
                  ELSE prevw[k]]

\* a call that returned: the map and the disk are as it left them
Returned(op, key, val, wrote, out) ==
  /\ store' = out.store
  /\ disk' = out.disk
  /\ last' = Call(op, key, out.status, out.res, out.flag, val, now)
  /\ hist' = HistAfter(out.store, IF out.status = "ok" THEN wrote ELSE NoWrite)
  /\ lastw' = LastwAfter(out.store, IF out.status = "ok" THEN wrote ELSE NoWrite)
  /\ prevw' = PrevwAfter(out.store, IF out.status = "ok" THEN wrote ELSE NoWrite)
  /\ clean' = (clean /\ out.status = "ok")
  /\ UNCHANGED <<opts, open, now, closed, sessions, root>>

\* a drop that flushes whatever the sync_opt
DropDiskAlways(st, dk, order) ==
  sync_to_disk(st, dk, order, opts.mem_push_opt, opts.generation_opt, now).disk

\* what dropping the DirCache leaves on disk
DropDisk(st, dk, order) ==
  IF opts.sync_opt = "SyncOnDrop"
  THEN sync_to_disk(st, dk, order, opts.mem_push_opt, opts.generation_opt, now).disk
  ELSE dk

\* a call that panicked: the DirCache is gone, dropped by the unwinding
\* or (panic = abort) not dropped at all
Panicked(op, key, val, out) ==
  /\ store' = EmptyStore
  /\ \/ disk' = out.disk
     \/ \E order \in Orders(out.store) : disk' = DropDisk(out.store, out.disk, order)
  /\ last' = Call(op, key, "panic", None, FALSE, val, now)
  /\ hist' = hist
  /\ lastw' = lastw
  /\ clean' = FALSE
  /\ open' = FALSE
  /\ closed' = [k \in Keys |-> None]
  /\ prevw' = [k \in Keys |-> None]
  /\ UNCHANGED <<opts, now, sessions, root>>

(* ----------------------------------------------------------- the actions *)
InsertOpt(key, content, o) ==
  /\ open
  /\ Returned("insert", key, Some(content), WriteOf(key, content, o.mem_push_opt),
              insert_opt(store, disk, key, content, o.mem_push_opt,
                         o.generation_opt, now))

Insert(key, content) == InsertOpt(key, content, opts)

GetOpt(key, o) ==
  /\ open
  /\ Returned("get", key, None, NoWrite,
              get_opt(store, disk, key, o.mem_pull_opt, o.generation_opt, now))

Get(key) == GetOpt(key, opts)

GetOrInsertOpt(key, produced, o) ==
  /\ open
  /\ LET out == get_or_insert_opt(store, disk, key, produced, o.mem_pull_opt,
                                  o.mem_push_opt, o.generation_opt, now)
         val == IF contains_key(store, key) THEN None ELSE produced
     IN IF out.status = "panic"
        THEN Panicked("get_or_insert", key, val, out)
        ELSE Returned("get_or_insert", key, val,
                      IF IsSome(val) THEN WriteOf(key, Unwrap(val), o.mem_push_opt)
                      ELSE NoWrite, out)

GetOrInsert(key, produced) == GetOrInsertOpt(key, produced, opts)

Remove(key) ==
  /\ open
  /\ Returned("remove", key, None, NoWrite, remove(store, disk, key))

SyncWith(o) ==
  /\ open
  /\ \E order \in Orders(store) :
       Returned("sync", NoKey, None, NoWrite,
                sync_to_disk(store, disk, order, o.mem_push_opt, o.generation_opt, now))

Sync == SyncWith(opts)

\* the DirCache goes out of scope
Drop ==
  /\ open
  /\ \E order \in Orders(store) : disk' = DropDisk(store, disk, order)
  /\ store' = EmptyStore
  /\ open' = FALSE
  /\ last' = Call("drop", NoKey, "ok", None, FALSE, None, now)
  /\ closed' = [k \in Keys |->
                  IF /\ clean
                     /\ opts.sync_opt = "SyncOnDrop"
                        \/ (last.op = "sync" /\ last.status = "ok")
                     /\ contains_key(store, k)
                  THEN lastw[k] ELSE None]
  /\ prevw' = [k \in Keys |-> None]
  /\ UNCHANGED <<opts, now, hist, lastw, clean, sessions, root>>

\* DirCacheOpts::open at the root path, with the DirOpenOpt dir_open
OpenAt(o, dir_open, eager_load) ==
  /\ ~open
  /\ sessions < MaxSessions
  /\ sessions' = sessions + 1
  /\ LET c == open_root(root, dir_open)
         r == IF c.status = "ok"
              THEN read_from_disk(disk, eager_load, o.generation_opt, now)
              ELSE [ok |-> FALSE, store |-> EmptyStore, disk |-> disk]
     IN /\ root' = c.root
        /\ disk' = r.disk
        /\ store' = IF r.ok THEN r.store ELSE EmptyStore
        /\ open' = r.ok
        /\ last' = Call("open", NoKey,
                        IF c.status /= "ok" THEN c.status
                        ELSE IF r.ok THEN "ok" ELSE "err",
                        None, eager_load, None, now)
        /\ hist' = IF r.ok THEN HistAfter(r.store, NoWrite) ELSE hist
        /\ lastw' = IF r.ok THEN LastwAfter(r.store, NoWrite) ELSE lastw
        /\ clean' = r.ok
  /\ opts' = o
  /\ closed' = IF last.op = "drop" THEN closed ELSE [k \in Keys |-> None]
  /\ prevw' = [k \in Keys |-> None]
  /\ UNCHANGED now

\* DirCacheOpts::open on the existing root
Open(o, eager_load) == OpenAt(o, "OnlyIfExists", eager_load)

\* the closed root is deleted with all that is below it
RemoveRoot ==
  /\ ~open
  /\ root = "AsDir"
  /\ root' = "No"
  /\ disk' = [k \in Keys |-> NoDir]
  /\ UNCHANGED <<store, opts, open, now, last, hist, lastw, closed, clean, sessions, prevw>>

\* a regular file is written at the path of the missing root, or removed
WriteRootFile ==
  /\ ~open
  /\ root \in {"No", "AsFile"}
  /\ root' = IF root = "No" THEN "AsFile" ELSE "No"
  /\ UNCHANGED <<disk, store, opts, open, now, last, hist, lastw, closed, clean, sessions,
                 prevw>>

\* a call of safe_join(base, other) on the bytes of a key
SafeJoin(other) ==
  LET r == safe_join_path(Base, other)
  IN /\ last' = Call("safe_join", other, IF IsSome(r) THEN "ok" ELSE "DangerousKey",
                      r, FALSE, None, now)
     /\ UNCHANGED <<disk, store, opts, open, now, hist, lastw, closed, clean, sessions,
                    prevw, root>>

\* a call of relativize(base, ext)
Relativize(base, ext) ==
  LET r == relativize(base, ext)
  IN /\ last' = Call("relativize", ext, IF IsSome(r) THEN "ok" ELSE "PathRelativize",
                      r, FALSE, Some(base), now)
     /\ UNCHANGED <<disk, store, opts, open, now, hist, lastw, closed, clean, sessions,
                    prevw, root>>

\* time passes
Tick ==
  /\ now < MaxTime
  /\ now' = now + 1
  /\ UNCHANGED <<disk, store, opts, open, last, hist, lastw, closed, clean, sessions,
                 prevw, root>>

\* the user puts a file of their own into an entry's directory
WriteRogue(key) ==
  /\ disk[key].exists
  /\ ~IsSome(disk[key].rogue)
  /\ disk' = [disk EXCEPT ![key].rogue = Some(RogueContent)]
  /\ UNCHANGED <<store, opts, open, now, last, hist, lastw, closed, clean, sessions,
                 prevw, root>>

(* ------------------------------------------------------- specifications *)
\* a cache just opened, with the options o, on an empty root
InitWith(o) ==
  /\ disk = [k \in Keys |-> NoDir]
  /\ store = EmptyStore
  /\ opts = o
  /\ open = TRUE
  /\ now = 0
  /\ last = Call("open", NoKey, "ok", None, FALSE, None, 0)
  /\ hist = [k \in Keys |-> <<>>]
  /\ lastw = [k \in Keys |-> None]
  /\ closed = [k \in Keys |-> None]
  /\ clean = TRUE
  /\ sessions = 0
  /\ prevw = [k \in Keys |-> None]
  /\ root = "AsDir"

Produced == { Some(v) : v \in Values } \cup {None}

\* the key the single-key specifications work on
OneKey == { <<"k">> }

\* the cache's options with another mem_push_opt, as insert_opt is handed them
WithPush(o, p) == [o EXCEPT !.mem_push_opt = p]

(* Spec: one DirCache on a fresh root, any push and pull mode, any limit,  *)
(* with and without expiry.                                                *)
SpecOpts ==
  OptsOver(MemPullOpts, MemPushOpts, GenRange, {"Plain"}, ExpirationOpts, {"ManualSync"})

Init == \E o \in SpecOpts : InitWith(o)

Next ==
  \/ \E k \in OneKey, v \in Values : Insert(k, v)
  \/ \E k \in OneKey : Get(k)
  \/ \E k \in OneKey, p \in Produced : GetOrInsert(k, p)
  \/ \E k \in OneKey : Remove(k)
  \/ Sync
  \/ Tick
  \/ \E k \in OneKey : WriteRogue(k)

Spec == Init /\ [][Next]_vars

(* SpecMix: one limit and one encoding throughout, the push mode chosen    *)
(* call by call; nothing expires.                                          *)
MixOpts ==
  OptsOver({"KeepInMemoryOnRead"}, {"PassthroughWrite"}, GenRange, Encodings, {NoExpiry},
           {"ManualSync"})

InitMix == \E o \in MixOpts : InitWith(o)

NextMix ==
  \/ \E k \in OneKey, v \in Values, p \in MemPushOpts : InsertOpt(k, v, WithPush(opts, p))
  \/ \E k \in OneKey, v \in Produced, p \in MemPushOpts :
       GetOrInsertOpt(k, v, WithPush(opts, p))
  \/ \E k \in OneKey, pl \in MemPullOpts : GetOpt(k, [opts EXCEPT !.mem_pull_opt = pl])
  \/ \E k \in OneKey : Remove(k)
  \/ \E p \in MemPushOpts : SyncWith(WithPush(opts, p))

SpecMix == InitMix /\ [][NextMix]_vars

(* SpecRot: successive inserts to one key under constant options that      *)
(* write every value to disk.                                              *)
RotOpts ==
  OptsOver({"KeepInMemoryOnRead"}, {"RetainAndWrite", "PassthroughWrite"}, GenRange,
           Encodings, {NoExpiry}, {"ManualSync"})

InitRot == \E o \in RotOpts : InitWith(o)

NextRot ==
  \/ \E k \in OneKey, v \in Values : Insert(k, v)
  \/ \E k \in OneKey : Get(k)
  \/ \E k \in OneKey : Remove(k)
  \/ Sync
  \/ Tick

SpecRot == InitRot /\ [][NextRot]_vars

(* SpecReopen: the root is written, closed and opened again, under         *)
(* options that may differ from one opening to the next.                   *)
ReopenOpts ==
  OptsOver({"KeepInMemoryOnRead"}, {"MemoryOnly", "PassthroughWrite"}, {ReopenGens},
           {"Plain"}, ExpirationOpts, {"SyncOnDrop"})

InitReopen == \E o \in ReopenOpts : InitWith(o)

NextReopen ==
  \/ \E k \in OneKey, v \in Values : Insert(k, v)
  \/ \E k \in OneKey : Get(k)
  \/ Sync
  \/ Drop
  \/ \E o \in ReopenOpts, e \in BOOLEAN : Open(o, e)
  \/ Tick

SpecReopen == InitReopen /\ [][NextReopen]_vars

(* SpecKeys: calls made with keys that safe_join accepts and keys that it  *)
(* rejects, each with a mem_push_opt and a mem_pull_opt of its own (insert, *)
(* get and get_or_insert are the calls made with the cache's options).     *)
KeysOpts ==
  OptsOver({"KeepInMemoryOnRead"}, {"PassthroughWrite"}, {1}, {"Plain"}, {NoExpiry},
           {"ManualSync"})

\* the keys the calls are made with
CallKeys == OneKey \cup UnsafeKeys

InitKeys == \E o \in KeysOpts : InitWith(o)

NextKeys ==
  \/ \E k \in CallKeys, v \in Values, p \in MemPushOpts : InsertOpt(k, v, WithPush(opts, p))
  \/ \E k \in CallKeys, v \in Produced, p \in MemPushOpts :
       GetOrInsertOpt(k, v, WithPush(opts, p))
  \/ \E k \in CallKeys, pl \in MemPullOpts : GetOpt(k, [opts EXCEPT !.mem_pull_opt = pl])
  \/ \E k \in CallKeys : Remove(k)
  \/ Sync

SpecKeys == InitKeys /\ [][NextKeys]_vars

(* SpecGens: a cache that writes through, each insert made with a         *)
(* max_generations of its own.                                             *)
GensOpts ==
  OptsOver({"KeepInMemoryOnRead"}, {"PassthroughWrite"}, GenRange, {"Plain"}, {NoExpiry},
           {"ManualSync"})

\* the options with another max_generations
WithGens(o, m) == [o EXCEPT !.generation_opt.max_generations = m]

InitGens == \E o \in GensOpts : InitWith(o)

NextGens ==
  \/ \E k \in OneKey, v \in Values, m \in GenRange : InsertOpt(k, v, WithGens(opts, m))
  \/ \E k \in OneKey : Get(k)
  \/ \E k \in OneKey : Remove(k)
  \/ Sync

SpecGens == InitGens /\ [][NextGens]_vars

(* SpecPath: safe_join and relativize called on every path of the bounds.  *)
InitPath == \E o \in KeysOpts : InitWith(o)

NextPath ==
  \/ \E other \in PathStrings : SafeJoin(other)
  \/ \E base \in PathSeqs, ext \in PathSeqs : Relativize(base, ext)

SpecPath == InitPath /\ [][NextPath]_vars

(* SpecNest: the keys k and k/sub, one directory inside the other, written *)
(* through to disk and scanned again by later opens as time passes.        *)
NestOpts ==
  OptsOver({"KeepInMemoryOnRead"}, {"PassthroughWrite"}, {ReopenGens}, {"Plain"},
           ExpirationOpts, {"ManualSync"})

InitNest == \E o \in NestOpts : InitWith(o)

NextNest ==
  \/ \E k \in Keys : Insert(k, MaxVal)
  \/ Drop
  \/ \E o \in NestOpts, e \in BOOLEAN : Open(o, e)
  \/ Tick

SpecNest == InitNest /\ [][NextNest]_vars

(* SpecTree: the keys k and k/sub inserted, read and removed in one        *)
(* session of a cache that writes through.                                 *)
TreeOpts ==
  OptsOver(MemPullOpts, {"PassthroughWrite"}, {1}, {"Plain"}, {NoExpiry}, {"ManualSync"})

InitTree == \E o \in TreeOpts : InitWith(o)

NextTree ==
  \/ \E k \in Keys, v \in Values : Insert(k, v)
  \/ \E k \in Keys : Get(k)
  \/ \E k \in Keys : Remove(k)

SpecTree == InitTree /\ [][NextTree]_vars

(* SpecOpen: the path of the root is missing, a regular file or a          *)
(* directory, and is opened with OnlyIfExists or CreateIfMissing.          *)
OpenOpts ==
  OptsOver({"KeepInMemoryOnRead"}, {"MemoryOnly", "PassthroughWrite"}, {1}, {"Plain"},
           {NoExpiry}, SyncOpts)

\* no DirCache is open yet and rt is what the root path holds
InitClosed(o, rt) ==
  /\ disk = [k \in Keys |-> NoDir]
  /\ store = EmptyStore
  /\ opts = o
  /\ open = FALSE
  /\ now = 0
  /\ last = Call("none", NoKey, "ok", None, FALSE, None, 0)
  /\ hist = [k \in Keys |-> <<>>]
  /\ lastw = [k \in Keys |-> None]
  /\ closed = [k \in Keys |-> None]
  /\ clean = TRUE
  /\ sessions = 0
  /\ prevw = [k \in Keys |-> None]
  /\ root = rt

InitOpen == \E o \in OpenOpts, rt \in FileObjectExists : InitClosed(o, rt)

NextOpen ==
  \/ \E o \in OpenOpts, m \in DirOpenOpts, e \in BOOLEAN : OpenAt(o, m, e)
  \/ \E k \in OneKey, v \in Values : Insert(k, v)
  \/ \E k \in OneKey : Get(k)
  \/ Drop
  \/ RemoveRoot
  \/ WriteRootFile

SpecOpen == InitOpen /\ [][NextOpen]_vars

(* SpecDrop: caches that keep their writes in memory are dropped and the   *)
(* root opened again, with and without SyncOnDrop.                         *)
DropOpts ==
  OptsOver({"KeepInMemoryOnRead"}, {"MemoryOnly"}, {ReopenGens}, {"Plain"},
           ExpirationOpts, SyncOpts)

InitDrop == \E o \in DropOpts : InitWith(o)

NextDrop ==
  \/ \E k \in OneKey, v \in Values : Insert(k, v)
  \/ Drop
  \/ \E o \in DropOpts : Open(o, FALSE)
  \/ Tick

SpecDrop == InitDrop /\ [][NextDrop]_vars

(* ------------------------------------------------------------ the claims *)
\* what get(k) returns in the current state, with the cache's options
GetNow(k, pull) == get_opt(store, disk, k, pull, opts.generation_opt, now)

\* the last call was a successful insert to k
Inserted(k) ==
  open /\ last.op = "insert" /\ last.status = "ok" /\ last.key = k

\* the value written at time `at` has not reached its expiry
Fresh(at) == saturating_add(at, as_dur(opts.generation_opt.expiration)) > now

\* C1: a successful insert(k, v), the entry not expired, immediately followed
\* by get(k) returns Some(v), whatever the options.
C1_InsertThenGet ==
  \A k \in OneKey, pull \in MemPullOpts :
    (Inserted(k) /\ Fresh(last.at)) =>
      /\ GetNow(k, pull).status = "ok"
      /\ GetNow(k, pull).res = last.val

\* C2: insert(k, v) then remove(k) returns Ok(true), a following get(k)
\* returns Ok(None) and a second remove(k) Ok(false); remove on a key that
\* is not in the map returns Ok(false).
C2_InsertThenRemove ==
  \A k \in OneKey :
    /\ Inserted(k) =>
         LET r == remove(store, disk, k)
             g == get_opt(r.store, r.disk, k, opts.mem_pull_opt, opts.generation_opt, now)
             r2 == remove(g.store, g.disk, k)
         IN /\ r.status = "ok" /\ r.flag
            /\ g.status = "ok" /\ g.res = None
            /\ r2.status = "ok" /\ ~r2.flag
    /\ (open /\ ~contains_key(store, k)) =>
         LET r == remove(store, disk, k) IN r.status = "ok" /\ ~r.flag

\* C3: after successful writes under any mem_push_opt, a sync (or a drop under
\* SyncOnDrop) and a reopen of the same root with no expiry, lazily or
\* eagerly, get(k) returns the last value written for every key k that was
\* in the map at close.
C3_RoundTrip ==
  \A k \in OneKey :
    (last.op = "open" /\ IsSome(closed[k])
       /\ opts.generation_opt.expiration = NoExpiry) =>
      /\ last.status = "ok"
      /\ GetNow(k, opts.mem_pull_opt).status = "ok"
      /\ GetNow(k, opts.mem_pull_opt).res = closed[k]

\* the values v1..vn inserted to k since it was last absent, n of them, and
\* the number of generations that should be on disk
Written(k) == hist[k]
Kept(k) == Min(Len(hist[k]), opts.generation_opt.max_generations)

\* C4: with RetainAndWrite or PassthroughWrite, constant M and Plain encoding,
\* after n inserts v1..vn on a fresh key (and still after a sync), file
\* generation-i holds exactly v(n-i) for every i < min(n, M) and no file
\* generation-i exists for i >= min(n, M).
C4_RotationHistory ==
  \A k \in OneKey :
    (open /\ contains_key(store, k)
       /\ opts.generation_opt.old_gen_encoding = "Plain") =>
      \A i \in GenIdx :
        disk[k].gens[i] =
          IF i < Kept(k) THEN Some(Written(k)[Len(Written(k)) - i]) ELSE None

\* a cache with M = 2 whose key was inserted three times with distinct last
\* values and then synced: generation-1 holds the second-to-last value
C4_Witness ==
  \E k \in OneKey :
    /\ open /\ contains_key(store, k) /\ last.op = "sync" /\ last.status = "ok"
    /\ opts.generation_opt.old_gen_encoding = "Plain"
    /\ opts.generation_opt.max_generations = 2
    /\ Len(Written(k)) = 3
    /\ Written(k)[2] # Written(k)[3]
    /\ disk[k].gens[1] = Some(Written(k)[2])
    /\ disk[k].gens[2] = None

\* C5: with a constant max_generations = M and any mem_push_opt per call, the
\* number of generation files in a key's directory is at most M.
C5_GenerationBound ==
  \A k \in OneKey :
    Cardinality(GenFiles(disk[k])) <= opts.generation_opt.max_generations

\* more writes than M reached the disk and exactly M files are kept
C5_Witness ==
  \E k \in OneKey :
    /\ open /\ contains_key(store, k)
    /\ Len(hist[k]) > opts.generation_opt.max_generations
    /\ opts.generation_opt.max_generations = 2
    /\ GenFiles(disk[k]) = {0, 1}

\* C6: with a non-Plain old_gen_encoding E, constant M and PassthroughWrite,
\* after n inserts v1..vn on a fresh key generation-0 holds the plain vn and
\* each generation-i with 1 <= i < min(n, M) holds E.encode(v(n-i)): encoded
\* exactly once.
C6_AgingEncoder ==
  \A k \in OneKey :
    (open /\ contains_key(store, k)
       /\ opts.generation_opt.old_gen_encoding # "Plain"
       /\ opts.mem_push_opt = "PassthroughWrite") =>
      \A i \in 0..(Kept(k) - 1) :
        disk[k].gens[i] =
          IF i = 0 THEN Some(Written(k)[Len(Written(k))])
          ELSE Some(encode(opts.generation_opt.old_gen_encoding,
                           Written(k)[Len(Written(k)) - i]))

\* three generations on disk under Lz4: the two aged ones encoded once
C6_Witness ==
  \E k \in OneKey :
    /\ open /\ contains_key(store, k)
    /\ opts.generation_opt.old_gen_encoding = "Lz4"
    /\ opts.mem_push_opt = "PassthroughWrite"
    /\ Kept(k) = 3
    /\ disk[k].gens[0] = Some(Written(k)[Len(Written(k))])
    /\ IsSome(disk[k].gens[2])
    /\ Unwrap(disk[k].gens[2]).lz4 = 1
    /\ Unwrap(disk[k].gens[1]).lz4 = 1

\* C7: remove(k) on a key whose directory also holds a foreign file deletes
\* only the manifest and the generation files: the foreign file keeps its
\* bytes and the directory stays; get leaves the foreign file untouched.
C7_ForeignFiles ==
  \A k \in OneKey :
    (open /\ IsSome(disk[k].rogue)) =>
      /\ contains_key(store, k) =>
           LET r == remove(store, disk, k)
           IN /\ r.status = "ok"
              /\ r.disk[k].rogue = disk[k].rogue
              /\ r.disk[k].exists
              /\ r.disk[k].manifest = None
              /\ GenFiles(r.disk[k]) = {}
      /\ \A pull \in MemPullOpts : GetNow(k, pull).disk[k].rogue = disk[k].rogue

\* C8: with ExpiresAfter(d), once the clock has advanced by more than d since
\* the key's last write, get(k) returns Ok(None), the key is no longer in the
\* map (a following remove(k) returns false) and the key's manifest and all
\* its generation files are gone from disk.
C8_ExpireOnGet ==
  \A k \in OneKey, pull \in MemPullOpts :
    (open /\ last.op \in {"insert", "get_or_insert"} /\ last.status = "ok"
       /\ last.key = k /\ IsSome(last.val)
       /\ opts.generation_opt.expiration.kind = "ExpiresAfter"
       /\ now > last.at + opts.generation_opt.expiration.dur) =>
      LET g == GetNow(k, pull)
          r == remove(g.store, g.disk, k)
      IN /\ g.status = "ok" /\ g.res = None
         /\ ~contains_key(g.store, k)
         /\ r.status = "ok" /\ ~r.flag
         /\ g.disk[k].manifest = None
         /\ GenFiles(g.disk[k]) = {}

\* every generation the manifest of dir records has age + d <= t
AllExpired(dir, expiration, t) ==
  LET md == read_metadata(dir)
  IN /\ md.present /\ md.ok /\ Len(md.generations) > 0
     /\ expiration.kind = "ExpiresAfter"
     /\ \A i \in 1..Len(md.generations) :
          md.generations[i].age + expiration.dur <= t

\* C9: opening a root with ExpiresAfter(d) when every generation of a stored
\* key has age + d <= now registers no entry for that key (get returns None)
\* and removes the key's generation files and its manifest from disk.
C9_ExpireOnOpen ==
  [][ \A k \in OneKey, e \in BOOLEAN :
        (Open(opts', e) /\ last'.status = "ok"
           /\ AllExpired(disk[k], opts'.generation_opt.expiration, now)) =>
          /\ ~contains_key(store', k)
          /\ GenFiles(disk'[k]) = {}
          /\ disk'[k].manifest = None ]_vars

\* a step leaves every file under the root as it is
SameFiles ==
  \A j \in Keys :
    /\ disk'[j].manifest = disk[j].manifest
    /\ disk'[j].gens = disk[j].gens
    /\ disk'[j].rogue = disk[j].rogue

\* a step removes no directory and creates none but k's and those above it
OnlyDirOf(k) ==
  \A j \in Keys :
    /\ disk[j].exists => disk'[j].exists
    /\ (disk'[j].exists /\ ~disk[j].exists) => (j = k \/ j \in Prefixes(k))

\* C10, as stated: insert, get_or_insert and get calls made with MemoryOnly
\* leave the filesystem under the root exactly as it was.
C10_DiskUntouched ==
  [][ \A k \in OneKey :
        (/\ opts.mem_push_opt = "MemoryOnly"
         /\ \/ \E v \in Values : Insert(k, v)
            \/ \E p \in Produced : GetOrInsert(k, p)
            \/ Get(k)) => disk' = disk ]_vars

\* C10, amended: with MemoryOnly an insert leaves the filesystem as it was, a
\* get_or_insert that returns a value changes it at most by creating the
\* key's directory, a get that returns a value leaves it as it was, and a
\* successful sync leaves the manifest and a generation-0 equal to the value
\* that was held in memory.
C10_MemoryOnly ==
  [][ \A k \in OneKey :
        opts.mem_push_opt = "MemoryOnly" =>
          /\ (\E v \in Values : Insert(k, v)) => disk' = disk
          /\ ((\E p \in Produced : GetOrInsert(k, p)) /\ last'.status = "ok") =>
               (SameFiles /\ OnlyDirOf(k))
          /\ (Get(k) /\ IsSome(last'.res)) => disk' = disk
          /\ (/\ Sync /\ last'.status = "ok"
              /\ contains_key(store, k)
              /\ IsSome(Unwrap(store[k]).in_mem)
              /\ ~Unwrap(Unwrap(store[k]).in_mem).committed) =>
               /\ IsSome(disk'[k].manifest)
               /\ disk'[k].gens[0] = Some(Unwrap(Unwrap(store[k]).in_mem).content) ]_vars

\* a MemoryOnly cache whose successful sync left the manifest and a
\* generation-0 equal to the last value inserted
C10_Witness ==
  \E k \in OneKey :
    /\ open /\ opts.mem_push_opt = "MemoryOnly"
    /\ last.op = "sync" /\ last.status = "ok"
    /\ IsSome(lastw[k])
    /\ disk[k].gens[0] = lastw[k]
    /\ IsSome(disk[k].manifest)

\* the entry of k in the map, and the value it holds in memory unflushed
EntryOf(st, k) == Unwrap(st[k])
Unflushed(st, k) ==
  /\ contains_key(st, k)
  /\ IsSome(EntryOf(st, k).in_mem)
  /\ ~Unwrap(EntryOf(st, k).in_mem).committed

\* C11: MemoryOnly inserts do not age generations. A MemoryOnly insert leaves
\* the key's directory and its generation records as they were, and the sync
\* that follows (M > 1) produces exactly one new generation, holding the last
\* value; on a key with nothing on disk the directory then holds only the
\* manifest, with one record, and generation-0 = vn.
C11_MemoryOnlyNoAging ==
  [][ \A k \in OneKey :
        /\ ((\E v \in Values : InsertOpt(k, v, WithPush(opts, "MemoryOnly")))
              /\ last'.status = "ok") =>
             /\ disk' = disk
             /\ EntryOf(store', k).on_disk =
                  IF contains_key(store, k) THEN EntryOf(store, k).on_disk ELSE <<>>
        /\ ((\E p \in MemPushOpts : SyncWith(WithPush(opts, p)))
              /\ last'.status = "ok" /\ Unflushed(store, k)
              /\ opts.generation_opt.max_generations > 1) =>
             /\ disk'[k].gens[0] = Some(Unwrap(EntryOf(store, k).in_mem).content)
             /\ Len(EntryOf(store', k).on_disk) =
                  Min(Len(EntryOf(store, k).on_disk) + 1,
                      opts.generation_opt.max_generations)
             /\ (EntryOf(store, k).on_disk = <<>> /\ GenFiles(disk[k]) = {}) =>
                  /\ GenFiles(disk'[k]) = {0}
                  /\ IsSome(disk'[k].manifest)
                  /\ Len(Unwrap(disk'[k].manifest).lines) = 1 ]_vars

\* two MemoryOnly inserts of different values and then a sync: only the
\* second value is on disk
C11_Witness ==
  \E k \in OneKey :
    /\ open /\ last.op = "sync" /\ last.status = "ok"
    /\ opts.generation_opt.max_generations > 1
    /\ IsSome(prevw[k]) /\ IsSome(lastw[k]) /\ prevw[k] # lastw[k]
    /\ GenFiles(disk[k]) = {0}
    /\ disk[k].gens[0] = lastw[k]
    /\ Len(Unwrap(disk[k].manifest).lines) = 1

\* every generation the entry of k records has its file
Intact(k) ==
  \A i \in 1..Len(EntryOf(store, k).on_disk) : IsSome(disk[k].gens[i - 1])

\* C12: dropping a cache that holds unflushed in-memory values writes them to
\* disk (manifest and generation-0 per key) if sync_opt = SyncOnDrop and
\* leaves the disk unchanged if sync_opt = ManualSync; the drop itself never
\* fails, whatever the flush ran into.
C12_DropFlush ==
  [][ Drop =>
        /\ last'.op = "drop" /\ last'.status = "ok" /\ ~open'
        /\ opts.sync_opt = "ManualSync" => disk' = disk
        /\ opts.sync_opt = "SyncOnDrop" =>
             \A k \in OneKey :
               (Unflushed(store, k) /\ Intact(k)) =>
                 /\ disk'[k].gens[0] = Some(Unwrap(EntryOf(store, k).in_mem).content)
                 /\ IsSome(disk'[k].manifest) ]_vars

\* a SyncOnDrop cache was dropped and the value it held only in memory is
\* generation-0 of its key
C12_Witness ==
  \E k \in OneKey :
    /\ ~open /\ last.op = "drop" /\ sessions = 0
    /\ opts.sync_opt = "SyncOnDrop"
    /\ IsSome(lastw[k])
    /\ disk[k].gens[0] = lastw[k]
    /\ IsSome(disk[k].manifest)

\* a call with the unsafe key bad returned `status` and left the map and the
\* filesystem as they were
Rejected(out, status) ==
  out.status = status /\ out.store = store /\ out.disk = disk

\* what insert_opt, get_opt and remove do with an unsafe key
UnsafeInsertGetRemove(bad) ==
  /\ \A v \in Values, push \in MemPushOpts :
       Rejected(insert_opt(store, disk, bad, v, push, opts.generation_opt, now),
                "DangerousKey")
  /\ \A pull \in MemPullOpts :
       /\ GetNow(bad, pull).status = "ok"
       /\ GetNow(bad, pull).res = None
  /\ remove(store, disk, bad).status = "ok"
  /\ ~remove(store, disk, bad).flag

\* get_or_insert_opt with the key k and what the producer returns
GetOrInsertNow(k, produced, pull, push) ==
  get_or_insert_opt(store, disk, k, produced, pull, push, opts.generation_opt, now)

\* C13, as stated: for a key that safe_join rejects, insert and get_or_insert
\* (and their _opt forms) return Err(DangerousKey) and leave the map and the
\* filesystem unchanged, get returns Ok(None) and remove Ok(false).
C13_UnsafeKeyRejected ==
  open =>
    \A bad \in UnsafeKeys :
      /\ UnsafeInsertGetRemove(bad)
      /\ \A produced \in Produced, pull \in MemPullOpts, push \in MemPushOpts :
           Rejected(GetOrInsertNow(bad, produced, pull, push), "DangerousKey")

\* C13, amended: as stated, but get_or_insert returns Err(DangerousKey) when
\* its producer succeeds; when the producer fails it returns the InsertWith
\* error, the producer being called before the key is joined. Nothing changes
\* in either case.
C13_UnsafeKeyProducerFirst ==
  open =>
    \A bad \in UnsafeKeys :
      /\ UnsafeInsertGetRemove(bad)
      /\ \A produced \in Produced, pull \in MemPullOpts, push \in MemPushOpts :
           Rejected(GetOrInsertNow(bad, produced, pull, push),
                    IF IsSome(produced) THEN "DangerousKey" ELSE "InsertWithErr")

\* a cache that holds a key has just rejected get_or_insert with an unsafe key
C13_Witness ==
  /\ open /\ last.op = "get_or_insert" /\ last.key \in UnsafeKeys
  /\ last.status = "DangerousKey"
  /\ \E k \in OneKey : contains_key(store, k) /\ disk[k].exists

\* the value the map holds for k: in memory or, failing that, generation-0
Stored(st, dk, k) ==
  IF IsSome(EntryOf(st, k).in_mem) THEN Some(Unwrap(EntryOf(st, k).in_mem).content)
  ELSE dk[k].gens[0]

\* C14: get_or_insert on a key that is not in the map calls the producer
\* once, stores its result and returns exactly the produced bytes, for every
\* mem_pull_opt and mem_push_opt; a following get(k) returns the same bytes.
C14_GetOrInsertAbsent ==
  \A k \in OneKey, v \in Values, pull \in MemPullOpts, push \in MemPushOpts :
    (open /\ ~contains_key(store, k)) =>
      LET g == GetOrInsertNow(k, Some(v), pull, push)
          again == get_opt(g.store, g.disk, k, pull, opts.generation_opt, now)
      IN /\ g.status = "ok" /\ g.flag
         /\ g.res = Some(v)
         /\ contains_key(g.store, k)
         /\ Stored(g.store, g.disk, k) = Some(v)
         /\ again.status = "ok" /\ again.res = Some(v)

\* get_or_insert has just inserted what its producer returned and returned it
C14_Witness ==
  \E k \in OneKey :
    /\ open /\ last.op = "get_or_insert" /\ last.key = k /\ last.status = "ok"
    /\ last.flag /\ IsSome(last.val) /\ last.res = last.val
    /\ contains_key(store, k)
    /\ GetNow(k, opts.mem_pull_opt).res = last.val

\* the entry of k is expired by the stated rule: last_updated + d <= now, or
\* the newest disk generation is that old and no value is held in memory
Expired(k) ==
  LET e == EntryOf(store, k)
      d == as_dur(opts.generation_opt.expiration)
  IN \/ saturating_add(e.last_updated, d) <= now
     \/ /\ ~IsSome(e.in_mem)
        /\ e.on_disk /= <<>>
        /\ saturating_add(e.on_disk[1].age, d) <= now

\* C15: get_or_insert on a key that is in the map and not expired never calls
\* the producer and returns what get(k) returns, the stored value.
C15_GetOrInsertPresent ==
  \A k \in OneKey, produced \in Produced, pull \in MemPullOpts, push \in MemPushOpts :
    LET get == GetNow(k, pull)
        g == GetOrInsertNow(k, produced, pull, push)
    IN (open /\ contains_key(store, k) /\ ~Expired(k)) =>
         /\ ~g.flag
         /\ g.status = get.status /\ g.res = get.res
         /\ get.status = "ok" => g.res = Stored(store, disk, k)

\* C16: get_or_insert on a key that is in the map but expired under the
\* GenerationOpt in use (last_updated + d <= now) calls the producer, inserts
\* its value and returns it; it neither panics nor returns the expired value.
C16_GetOrInsertExpired ==
  \A k \in OneKey, v \in Values, pull \in MemPullOpts, push \in MemPushOpts :
    (/\ open /\ contains_key(store, k)
     /\ saturating_add(EntryOf(store, k).last_updated,
                       as_dur(opts.generation_opt.expiration)) <= now) =>
      LET g == GetOrInsertNow(k, Some(v), pull, push)
      IN /\ g.status = "ok" /\ g.flag
         /\ g.res = Some(v)
         /\ contains_key(g.store, k)

\* C17: when the producer of get_or_insert fails for a key that is not in the
\* map, the call returns the InsertWith error, the key is not added to the
\* map and nothing is created or changed on disk.
C17_ProducerFails ==
  \A k \in OneKey, pull \in MemPullOpts, push \in MemPushOpts :
    (open /\ ~contains_key(store, k)) =>
      LET g == GetOrInsertNow(k, None, pull, push)
      IN /\ g.status = "InsertWithErr" /\ g.flag
         /\ g.store = store
         /\ g.disk = disk

\* get_or_insert has just failed with its producer on a key that has no
\* directory: the key is not in the map and there is still no directory
C17_Witness ==
  \E k \in OneKey :
    /\ open /\ last.op = "get_or_insert" /\ last.key = k
    /\ last.status = "InsertWithErr"
    /\ ~contains_key(store, k)
    /\ disk[k] = NoDir

\* what an open with the DirOpenOpt m returns for the root state rt
OpenOutcome(m, rt) ==
  IF m = "OnlyIfExists" THEN (IF rt = "AsDir" THEN "ok" ELSE "Open")
  ELSE IF rt = "AsFile" THEN "WriteContent" ELSE "ok"

\* C18: OnlyIfExists fails with Open when the root path is missing or a
\* regular file and succeeds when it is a directory; CreateIfMissing creates
\* the directory when the path is missing, succeeds on a directory and fails
\* with WriteContent on a regular file. A failed open creates nothing.
C18_OpenOutcome ==
  [][ \A o \in OpenOpts, m \in DirOpenOpts, e \in BOOLEAN :
        OpenAt(o, m, e) =>
          /\ last'.status = OpenOutcome(m, root)
          /\ open' = (OpenOutcome(m, root) = "ok")
          /\ OpenOutcome(m, root) = "ok" => root' = "AsDir"
          /\ OpenOutcome(m, root) /= "ok" => (root' = root /\ disk' = disk) ]_vars

\* an open has just failed with WriteContent on a root that is a regular file
C18_Witness ==
  /\ ~open /\ last.op = "open" /\ last.status = "WriteContent"
  /\ root = "AsFile"
  /\ \A k \in Keys : disk[k] = NoDir

\* the manifest of the directory has a record that has not expired at time t
ManifestLive(dir, expiration, t) ==
  /\ IsSome(dir.manifest)
  /\ \E i \in DOMAIN Unwrap(dir.manifest).lines :
       ~(saturating_add(duration_from_nanos(Unwrap(dir.manifest).lines[i].age_ns),
                        as_dur(expiration)) <= t)

\* C19: after a successful open the keys of the map are exactly the
\* directories below the root, at any depth, whose manifest leaves at least
\* one unexpired generation; a directory without a manifest gives no key and
\* its subdirectories are still scanned.
C19_OpenScan ==
  [][ \A o \in NestOpts, e \in BOOLEAN :
        (Open(o, e) /\ open') =>
          \A k \in Keys :
            contains_key(store', k)
              <=> ManifestLive(disk[k], o.generation_opt.expiration, now) ]_vars

\* C20: with the keys k and k/sub both stored, remove(k) returns true,
\* deletes k's manifest and generation files, leaves the directory k/ and
\* everything under k/sub in place, and get(k/sub) still returns its value;
\* a later remove(k/sub) deletes the directory k/sub entirely and leaves k/
\* as a directory.
C20_NestedIndependent ==
  [][ LET k == <<"k">>
          sub == <<"k", "sub">>
          g == get_opt(store', disk', sub, opts.mem_pull_opt, opts.generation_opt, now)
          r == remove(store', disk', sub)
      IN (Remove(k) /\ contains_key(store, k) /\ contains_key(store, sub)) =>
           /\ last'.status = "ok" /\ last'.flag
           /\ disk'[k] = [NoDir EXCEPT !.exists = TRUE]
           /\ IsSome(disk[sub].manifest) /\ disk'[sub] = disk[sub]
           /\ store'[sub] = store[sub]
           /\ g.status = "ok" /\ IsSome(g.res) /\ g.res = lastw[sub]
           /\ r.status = "ok" /\ r.flag
           /\ r.disk[sub] = NoDir
           /\ r.disk[k] = [NoDir EXCEPT !.exists = TRUE] ]_vars

\* remove(k) has just returned true while k/sub is stored below it
C20_Witness ==
  /\ open /\ last.op = "remove" /\ last.key = <<"k">> /\ last.flag
  /\ contains_key(store, <<"k", "sub">>)
  /\ IsSome(disk[<<"k", "sub">>].manifest)
  /\ disk[<<"k">>].exists /\ ~IsSome(disk[<<"k">>].manifest)

\* the pieces of the key between its separators, as the claim reads a key
Pieces(s) == split(s, 1, <<>>, <<>>)

\* the key is one the claim calls dangerous: empty, absolute, with a NUL
\* byte, or with a piece that is empty, `.` or `..`
DangerousKey(s) ==
  \/ s = <<>>
  \/ s[1] = "/"
  \/ \E i \in 1..Len(s) : s[i] = "NUL"
  \/ \E j \in 1..Len(Pieces(s)) : Pieces(s)[j] \in { <<>>, <<".">>, <<".", ".">> }

\* C21: safe_join fails with DangerousKey, returning no joined path, for
\* every key that is empty, absolute, holds a NUL byte, or has a component
\* that is `.`, `..` or empty (leading, trailing or doubled separator).
C21_SafeJoinRejects ==
  (last.op = "safe_join" /\ DangerousKey(last.key)) =>
    (last.status = "DangerousKey" /\ last.res = None)

\* safe_join has just rejected a key with a `.` between two normal components
C21_Witness ==
  /\ last.op = "safe_join" /\ last.key = <<"a", "/", ".", "/", "a">>
  /\ last.status = "DangerousKey"

\* C22: safe_join succeeds for every key made of one or more non-empty
\* normal components joined by exactly one separator each, and returns the
\* base followed by exactly those components.
C22_SafeJoinAccepts ==
  (last.op = "safe_join" /\ ~DangerousKey(last.key)) =>
    /\ last.status = "ok"
    /\ last.res = Some(Base \o Pieces(last.key))
    /\ Len(Unwrap(last.res)) > Len(Base)
    /\ SubSeq(Unwrap(last.res), 1, Len(Base)) = Base

\* safe_join has just joined a key of two components
C22_Witness ==
  /\ last.op = "safe_join" /\ last.key = <<"a", "/", ".", "a">>
  /\ last.res = Some(<<"root", <<"a">>, <<".", "a">> >>)

\* C23: relativize(base, base joined with s) returns s for every base and
\* non-empty s, and relativize fails with PathRelativize when ext equals
\* base, is shorter than base, or differs from base in some component.
C23_Relativize ==
  last.op = "relativize" =>
    LET base == Unwrap(last.val)
        ext == last.key
    IN IF Len(ext) > Len(base) /\ SubSeq(ext, 1, Len(base)) = base
       THEN /\ last.status = "ok"
            /\ join(base, Unwrap(last.res)) = ext
            /\ Unwrap(last.res) /= <<>>
       ELSE last.status = "PathRelativize" /\ last.res = None

\* relativize has just returned the two components added to a base
C23_Witness ==
  /\ last.op = "relativize" /\ last.val = Some(<<"a">>)
  /\ last.key = <<"a", "b", "a">>
  /\ last.res = Some(<<"b", "a">>)

\* the files dir-cache-generation-i of the key's directory are exactly those
\* of the records of its entry
Aligned(k) ==
  \A i \in GenIdx :
    IsSome(disk[k].gens[i]) <=> i < Len(EntryOf(store, k).on_disk)

\* C24: in every state reached by successful calls only, every entry of the
\* map has the file dir-cache-generation-i in its directory exactly when
\* i < len(on_disk).
C24_FileRecordAlignment ==
  (open /\ clean) => \A k \in Keys : contains_key(store, k) => Aligned(k)

\* C25: in every state reached by successful calls, every entry with a
\* non-empty on_disk has last_updated equal to on_disk[0].age, also after a
\* MemoryOnly insert on a key that has generations on disk.
C25_TimestampInvariant ==
  (open /\ clean) =>
    \A k \in Keys :
      (contains_key(store, k) /\ EntryOf(store, k).on_disk /= <<>>) =>
        EntryOf(store, k).last_updated = EntryOf(store, k).on_disk[1].age

\* C25 as the code has it: last_updated equals on_disk[0].age unless the
\* entry holds an in-memory value that no write has committed, and then it
\* is the later time at which that value was put in memory.
C25_TimestampUnlessMemoryOnly ==
  (open /\ clean) =>
    \A k \in Keys :
      (contains_key(store, k) /\ EntryOf(store, k).on_disk /= <<>>) =>
        \/ EntryOf(store, k).last_updated = EntryOf(store, k).on_disk[1].age
        \/ /\ Unflushed(store, k)
           /\ EntryOf(store, k).last_updated > EntryOf(store, k).on_disk[1].age

\* a MemoryOnly insert has just put a value over an older generation on disk
C25_Witness ==
  /\ open /\ clean /\ opts.mem_push_opt = "MemoryOnly"
  /\ last.op = "insert" /\ last.key = <<"k">> /\ last.status = "ok"
  /\ contains_key(store, <<"k">>)
  /\ EntryOf(store, <<"k">>).on_disk /= <<>>
  /\ EntryOf(store, <<"k">>).last_updated > EntryOf(store, <<"k">>).on_disk[1].age

\* the entry of k holds an in-memory value marked committed
Committed(st, k) ==
  /\ contains_key(st, k)
  /\ IsSome(EntryOf(st, k).in_mem)
  /\ Unwrap(EntryOf(st, k).in_mem).committed

\* C26: in every state reached by calls none of which returned an error,
\* every entry whose in-memory value is marked committed holds the bytes of
\* the file dir-cache-generation-0 of its directory.
C26_CommittedInvariant ==
  (open /\ clean) =>
    \A k \in Keys :
      Committed(store, k) =>
        disk[k].gens[0] = Some(Unwrap(EntryOf(store, k).in_mem).content)

\* a RetainAndWrite insert has just replaced the newest of several
\* generations and holds its value committed
C26_Witness ==
  /\ open /\ clean /\ last.op = "insert" /\ last.key = <<"k">>
  /\ Committed(store, <<"k">>)
  /\ Len(EntryOf(store, <<"k">>).on_disk) >= 2
  /\ disk[<<"k">>].gens[1] /= disk[<<"k">>].gens[0]

\* C27: after every successful generational write the encoding recorded in
\* on_disk[i] is the encoding applied to the bytes of
\* dir-cache-generation-i: the record promoted from position 0 to position 1
\* carries old_gen_encoding, and position 0 is Plain.
C27_TruthfulTags ==
  (open /\ clean) =>
    \A k \in Keys :
      contains_key(store, k) =>
        \A i \in 1..Len(EntryOf(store, k).on_disk) :
          IsSome(disk[k].gens[i - 1]) =>
            Unwrap(disk[k].gens[i - 1]).lz4
              = (IF EntryOf(store, k).on_disk[i].encoding = "Lz4" THEN 1 ELSE 0)

\* C28: get(k) removes the entry only if last_updated + d <= now, or if the
\* newest disk generation is expired and the entry has no in-memory value;
\* an entry with an in-memory value and last_updated + d > now is returned
\* from memory and stays in place with its directory.
C28_ExpiryWithLiveInMem ==
  \A k \in OneKey, pull \in MemPullOpts :
    (open /\ clean /\ contains_key(store, k)) =>
      LET e == EntryOf(store, k)
          d == as_dur(opts.generation_opt.expiration)
          g == GetNow(k, pull)
          removed == ~contains_key(g.store, k)
      IN /\ removed =>
              \/ saturating_add(e.last_updated, d) <= now
              \/ /\ e.on_disk /= <<>>
                 /\ saturating_add(e.on_disk[1].age, d) <= now
                 /\ ~IsSome(e.in_mem)
         /\ (IsSome(e.in_mem) /\ saturating_add(e.last_updated, d) > now) =>
              /\ g.status = "ok"
              /\ g.res = Some(Unwrap(e.in_mem).content)
              /\ ~removed
              /\ g.disk[k] = disk[k]

\* what insert(k, v) and get_or_insert(k, || v) return on the current state
\* with the push mode given
InsertNow(k, v, push) == insert_opt(store, disk, k, v, push, opts.generation_opt, now)

\* the entry of a new key after a write with the push mode: retained and
\* passed are the in-memory values that a RetainAndWrite and a
\* PassthroughWrite write leave
NewKeyMatrix(out, k, v, push, retained, passed) ==
  LET e == EntryOf(out.store, k)
  IN /\ contains_key(out.store, k)
     /\ push = "RetainAndWrite" =>
          /\ e.in_mem = retained
          /\ out.disk[k].gens[0] = Some(v)
     /\ push = "PassthroughWrite" =>
          /\ e.in_mem = passed
          /\ out.disk[k].gens[0] = Some(v)
     /\ push = "MemoryOnly" =>
          /\ e.in_mem = Some(InMemEntry(FALSE, v))
          /\ out.disk[k].gens = disk[k].gens
          /\ out.disk[k].manifest = disk[k].manifest

\* C29, as stated: a RetainAndWrite write to a key that was not in the map,
\* through insert or through get_or_insert, leaves in_mem = Some(bytes)
\* marked committed = false; PassthroughWrite leaves in_mem = None and
\* MemoryOnly leaves in_mem = Some(bytes), committed = false, and writes no
\* file.
C29_NewKeyMatrix ==
  \A k \in OneKey, v \in Values, push \in MemPushOpts, pull \in MemPullOpts :
    (open /\ clean /\ ~contains_key(store, k)) =>
      /\ InsertNow(k, v, push).status = "ok" =>
           NewKeyMatrix(InsertNow(k, v, push), k, v, push,
                        Some(InMemEntry(FALSE, v)), None)
      /\ GetOrInsertNow(k, Some(v), pull, push).status = "ok" =>
           NewKeyMatrix(GetOrInsertNow(k, Some(v), pull, push), k, v, push,
                        Some(InMemEntry(FALSE, v)), None)

\* C29, as the code has it: the RetainAndWrite write to a new key leaves the
\* value committed = false through get_or_insert and committed = true
\* through insert; the PassthroughWrite write leaves in_mem = None through
\* insert, and through get_or_insert the value its closing get reads back
\* (committed, kept under KeepInMemoryOnRead).
C29_NewKeyMatrixByCall ==
  \A k \in OneKey, v \in Values, push \in MemPushOpts, pull \in MemPullOpts :
    (open /\ clean /\ ~contains_key(store, k)) =>
      /\ InsertNow(k, v, push).status = "ok"
      /\ NewKeyMatrix(InsertNow(k, v, push), k, v, push,
                      Some(InMemEntry(TRUE, v)), None)
      /\ GetOrInsertNow(k, Some(v), pull, push).status = "ok"
      /\ NewKeyMatrix(GetOrInsertNow(k, Some(v), pull, push), k, v, push,
                      Some(InMemEntry(FALSE, v)),
                      IF pull = "KeepInMemoryOnRead" THEN Some(InMemEntry(TRUE, v))
                      ELSE None)

\* the first write to the key was a RetainAndWrite insert, which left the
\* value committed
C29_Witness ==
  /\ open /\ clean /\ last.op = "insert" /\ last.key = <<"k">>
  /\ Len(hist[<<"k">>]) = 1
  /\ Committed(store, <<"k">>)
  /\ Len(EntryOf(store, <<"k">>).on_disk) = 1
  /\ disk[<<"k">>].gens[0] = last.val

\* C30: a sync on an entry whose in-memory value is committed only rewrites
\* the manifest: the generation files, on_disk and last_updated are as they
\* were and the in-memory value is still present and committed.
C30_SyncCommitted ==
  \A k \in OneKey, order \in Orders(store) :
    (open /\ clean /\ Committed(store, k)) =>
      LET s == sync_to_disk(store, disk, order, opts.mem_push_opt,
                            opts.generation_opt, now)
      IN /\ s.status = "ok"
         /\ s.disk[k].gens = disk[k].gens
         /\ contains_key(s.store, k)
         /\ EntryOf(s.store, k).on_disk = EntryOf(store, k).on_disk
         /\ EntryOf(s.store, k).last_updated = EntryOf(store, k).last_updated
         /\ EntryOf(s.store, k).in_mem = EntryOf(store, k).in_mem

\* C31: writing the manifest for on_disk = [g0, ..., gn], newest first, and
\* reading it back yields the same records in the same order, so position 0
\* after reading is the newest generation.
C31_ManifestRoundTrip ==
  \A k \in Keys :
    (open /\ contains_key(store, k) /\ disk[k].exists) =>
      LET w == dump_metadata(EntryOf(store, k).on_disk, disk[k])
          r == read_metadata(w.dir)
      IN /\ w.ok /\ r.ok /\ r.present
         /\ r.version = MANIFEST_VERSION
         /\ r.generations = EntryOf(store, k).on_disk

\* the age written in line i of the key's manifest has reached its expiry
LineExpired(dir, i, expiration, t) ==
  saturating_add(duration_from_nanos(Unwrap(dir.manifest).lines[i].age_ns),
                 as_dur(expiration)) <= t

\* C32: when the manifest of a key lists several generations of which the
\* newest is unexpired at the open and an older one is expired, the open
\* registers the key with last_updated equal to the newest age and keeps
\* dir-cache-generation-0, get(k) returns its bytes, and with eager_load the
\* in-memory value is those bytes, committed.
C32_PartialExpiryOnOpen ==
  [][ \A o \in ReopenOpts, e \in BOOLEAN, k \in OneKey :
        (/\ Open(o, e)
         /\ IsSome(disk[k].manifest) /\ IsSome(disk[k].gens[0])
         /\ Len(Unwrap(disk[k].manifest).lines) >= 2
         /\ ~LineExpired(disk[k], 1, o.generation_opt.expiration, now)
         /\ \E i \in 2..Len(Unwrap(disk[k].manifest).lines) :
              LineExpired(disk[k], i, o.generation_opt.expiration, now)) =>
          LET g == get_opt(store', disk', k, o.mem_pull_opt, o.generation_opt, now)
          IN /\ open' /\ last'.status = "ok"
             /\ contains_key(store', k)
             /\ EntryOf(store', k).last_updated
                  = duration_from_nanos(Unwrap(disk[k].manifest).lines[1].age_ns)
             /\ disk'[k].gens[0] = disk[k].gens[0]
             /\ g.status = "ok" /\ g.res = disk[k].gens[0]
             /\ e => EntryOf(store', k).in_mem
                       = Some(InMemEntry(TRUE, Unwrap(disk[k].gens[0]))) ]_vars

SyncOn(st, dk, order) ==
  sync_to_disk(st, dk, order, opts.mem_push_opt, opts.generation_opt, now)

\* C34: after a successful insert or get_or_insert made with RetainAndWrite
\* or PassthroughWrite, the sync that follows leaves the generation files of
\* the key as they were, and a second sync changes nothing on disk.
C34_NoDuplicateOnSync ==
  \A k \in OneKey, order \in Orders(store) :
    (/\ open /\ clean /\ contains_key(store, k)
     /\ last.op \in {"insert", "get_or_insert"}
     /\ last.status = "ok" /\ last.key = k
     /\ opts.mem_push_opt \in {"RetainAndWrite", "PassthroughWrite"}) =>
      LET s1 == SyncOn(store, disk, order)
          s2 == SyncOn(s1.store, s1.disk, order)
      IN /\ s1.status = "ok"
         /\ s1.disk[k].gens = disk[k].gens
         /\ s2.status = "ok"
         /\ s2.disk = s1.disk

\* C35: an insert on a key already in the map that returns an error leaves
\* the entry's in_mem, on_disk and last_updated as they were, so that the
\* get(k) that follows returns what it would have returned before.
C35_FailedWriteKeepsEntry ==
  [][ \A k \in OneKey :
        (/\ last'.op = "insert" /\ last'.status /= "ok"
         /\ contains_key(store, k)
         /\ Insert(k, Unwrap(last'.val))) =>
          /\ store'[k] = store[k]
          /\ get_opt(store', disk', k, opts.mem_pull_opt, opts.generation_opt, now).res
               = GetNow(k, opts.mem_pull_opt).res ]_vars

\* C36: once an open under ExpiresAfter(d) has dropped a key all of whose
\* generations were expired, every later open of the root, with any
\* expiration and either eager_load, succeeds and does not register the key.
C36_ExpiredStayGone ==
  [][ \A o \in ReopenOpts, e \in BOOLEAN, k \in OneKey :
        (/\ Open(o, e) /\ open'
         /\ AllExpired(disk[k], o.generation_opt.expiration, now)) =>
          /\ ~contains_key(store', k)
          /\ \A o2 \in ReopenOpts, e2 \in BOOLEAN :
               LET r == read_from_disk(disk', e2, o2.generation_opt, now)
               IN r.ok /\ ~contains_key(r.store, k) ]_vars

\* the key k is absent from the map st and from every map that a sync, a drop
\* with or without a flush, and an open with any options at any later time
\* make of st and the disk dk
GoneAfter(st, dk, k) ==
  /\ ~contains_key(st, k)
  /\ \A order \in Orders(st), flush \in BOOLEAN :
       LET s == SyncOn(st, dk, order)
           d == IF flush THEN s.disk ELSE dk
       IN /\ ~contains_key(s.store, k)
          /\ \A o \in ReopenOpts, e \in BOOLEAN, t \in now..MaxTime :
               LET r == read_from_disk(d, e, o.generation_opt, t)
               IN r.ok => ~contains_key(r.store, k)

\* C37: a key whose remove returned Ok(true) is absent from the map, and it
\* stays absent through every later call that does not insert it, through a
\* sync, through a drop and through an open with any options.
C37_RemovedStayGone ==
  [][ \A k \in Keys :
        /\ (/\ last'.op = "remove" /\ last'.key = k
            /\ last'.status = "ok" /\ last'.flag
            /\ Remove(k)) => GoneAfter(store', disk', k)
        /\ (/\ open /\ open'
            /\ ~(last'.op \in {"insert", "get_or_insert"} /\ last'.key = k)
            /\ GoneAfter(store, disk, k)) => GoneAfter(store', disk', k) ]_vars

\* a key was removed with Ok(true) while a key below it stays on disk
C37_Witness ==
  /\ open /\ last.op = "remove" /\ last.status = "ok" /\ last.flag
  /\ last.key = <<"k">>
  /\ contains_key(store, <<"k", "sub">>)
  /\ disk[<<"k">>].exists

\* the last call supplied the value of k: an insert, or a get_or_insert
\* that called its producer
Supplied(k) ==
  /\ open /\ last.status = "ok" /\ last.key = k
  /\ \/ last.op = "insert"
     \/ last.op = "get_or_insert" /\ last.flag

\* the get of k on the map st and the disk dk returns no value older than
\* the expiry allows, the value having been supplied at time at
FreshGet(st, dk, k, at) ==
  LET g == get_opt(st, dk, k, opts.mem_pull_opt, opts.generation_opt, now)
  IN (g.status = "ok" /\ IsSome(g.res)) =>
       at + opts.generation_opt.expiration.dur > now

\* C38: under ExpiresAfter(d), a get that returns Some(v) at the clock value
\* now returns a value that was supplied at a time t with t + d > now, in
\* every push mode, directly and after a sync, a drop and a reopen.
C38_NoStaleReads ==
  \A k \in OneKey :
    (Supplied(k) /\ opts.generation_opt.expiration.kind = "ExpiresAfter") =>
      /\ FreshGet(store, disk, k, last.at)
      /\ \A order \in Orders(store) :
           LET s == SyncOn(store, disk, order)
               r == read_from_disk(s.disk, FALSE, opts.generation_opt, now)
           IN /\ s.status = "ok" => FreshGet(s.store, s.disk, k, last.at)
              /\ (s.status = "ok" /\ r.ok) => FreshGet(r.store, r.disk, k, last.at)

\* C39: a successful disk write to k with max_generations = m, on an entry
\* that holds more than m generation records, leaves no file
\* dir-cache-generation-i with i >= m in the directory of k, and at most m
\* records in on_disk.
C39_LoweredLimitTruncates ==
  [][ \A k \in OneKey, m \in GenRange :
        (/\ last'.op = "insert" /\ last'.status = "ok"
         /\ contains_key(store, k)
         /\ Len(EntryOf(store, k).on_disk) > m
         /\ InsertOpt(k, Unwrap(last'.val), WithGens(opts, m))) =>
          /\ Len(EntryOf(store', k).on_disk) <= m
          /\ \A i \in GenIdx : i >= m => ~IsSome(disk'[k].gens[i]) ]_vars

\* the map st without the values that the read side keeps in memory: the
\* committed copies of what is on disk
Forget(st) ==
  [k \in Keys |->
     IF /\ contains_key(st, k)
        /\ IsSome(EntryOf(st, k).in_mem)
        /\ Unwrap(EntryOf(st, k).in_mem).committed
     THEN Some([EntryOf(st, k) EXCEPT !.in_mem = None])
     ELSE st[k]]

\* two outcomes that a caller cannot tell apart, on disk or in what they return
SameSeen(a, b) ==
  /\ a.status = b.status /\ a.res = b.res /\ a.flag = b.flag
  /\ a.disk = b.disk
  /\ Forget(a.store) = Forget(b.store)

\* every call returns the same and leaves the same disk on a map that kept
\* what it read, under KeepInMemoryOnRead, and on the map that kept nothing,
\* under DontKeepInMemoryOnRead
PullBlind ==
  open =>
    \A k \in OneKey :
      LET f == Forget(store)
          g == opts.generation_opt
          push == opts.mem_push_opt
      IN /\ SameSeen(get_opt(store, disk, k, "KeepInMemoryOnRead", g, now),
                     get_opt(f, disk, k, "DontKeepInMemoryOnRead", g, now))
         /\ SameSeen(remove(store, disk, k), remove(f, disk, k))
         /\ \A v \in Values :
              SameSeen(insert_opt(store, disk, k, v, push, g, now),
                       insert_opt(f, disk, k, v, push, g, now))
         /\ \A p \in Produced :
              SameSeen(get_or_insert_opt(store, disk, k, p, "KeepInMemoryOnRead",
                                         push, g, now),
                       get_or_insert_opt(f, disk, k, p, "DontKeepInMemoryOnRead",
                                         push, g, now))
         /\ \A order \in Orders(store) :
              SameSeen(sync_to_disk(store, disk, order, push, g, now),
                       sync_to_disk(f, disk, order, push, g, now))

\* an open of the closed root succeeds or fails, and leaves the same disk and
\* the same map but for the values kept in memory, with eager_load true and
\* with eager_load false
EagerBlind ==
  ~open =>
    \A o \in ReopenOpts :
      LET e == read_from_disk(disk, TRUE, o.generation_opt, now)
          l == read_from_disk(disk, FALSE, o.generation_opt, now)
      IN /\ e.ok = l.ok
         /\ e.disk = l.disk
         /\ e.ok => Forget(e.store) = Forget(l.store)

\* C40: the results of every get, get_or_insert and remove, and the disk, are
\* the same under KeepInMemoryOnRead and DontKeepInMemoryOnRead, and after an
\* open with eager_load true and with eager_load false.
C40_ReadSideUnobservable == PullBlind /\ EagerBlind

====
